---- MODULE Spec2Model ----
(***************************************************************************)
(* Facebook account creator: the proxy pool (proxies/proxy_manager.py),    *)
(* the registration workflow (facebook/registration.py), the top-level     *)
(* proxy loop and the operator report (main.py).                           *)
(*                                                                         *)
(* The modules are taken as importable: facebook/verification.py imports  *)
(* get_verification_info from utils/user_input.py, which does not define  *)
(* it, so the functions are modelled as written, one by one.              *)
(*                                                                         *)
(* Two specifications:                                                     *)
(*   SpecPM  the ProxyManager's public operations called in any order      *)
(*   Spec    one run of main(): load, test, try_with_proxy, report         *)
(***************************************************************************)
EXTENDS Integers, Sequences, FiniteSets, TLC

VARIABLES
  \* ---- ProxyManager (proxies/proxy_manager.py:18-24) and its two files
  proxies,               \* self.proxies: list of proxy dicts
  working_proxies,       \* self.working_proxies: list of proxy dicts
  current_proxy,         \* self.current_proxy: a proxy dict or None
  proxy_file,            \* content of PROXY_FILE (NoFile when absent)
  working_proxies_file,  \* content of working_proxies.txt (NoFile when absent)
  evicted,               \* history: proxies remove_current_proxy was called on
  last_call              \* history: the last ProxyManager call, its argument and result

pmvars == <<proxies, working_proxies, current_proxy, proxy_file,
            working_proxies_file, evicted, last_call>>

VARIABLES
  \* ---- one run of main() (main.py:81-164)
  pc,                    \* the next step of the run
  attempt,               \* try_with_proxy: the loop variable `attempt`
  delays,                \* history: the delays try_with_proxy slept, in order
  ca_result,             \* what create_account returned to try_with_proxy
  ca_exc,                \* the exception create_account raised, "none" if none
  twp_result,            \* what try_with_proxy returned to main
  report,                \* the report headers main printed, in order
  \* ---- one FacebookRegistration (facebook/registration.py:26-33)
  cookies,               \* self.session: the cookie jar
  registration_attempts, \* self.registration_attempts
  strategy,              \* the strategy create_account is running
  idx,                   \* position in the warm-up sequence / the signup URL list
  result,                \* the value the running strategy returned
  \* ---- history of the current create_account call
  started,               \* the strategies started, in order
  returned,              \* the outcome each finished strategy returned, in order
  reqs,                  \* the phases that issued a request
  last_post,             \* the form POST whose classification ended the strategy
  fin,                   \* the _finalize_account call that produced `result`
  transport_failed,      \* a request of a strategy raised a transport error
  caught,                \* the exception the last step raised and the try block that caught it
  vh_calls               \* the VerificationHandler methods invoked

mainvars == <<pc, attempt, delays, ca_result, ca_exc, twp_result, report>>
regvars == <<cookies, registration_attempts, strategy, idx, result>>
histvars == <<started, returned, reqs, last_post, fin, transport_failed, caught, vh_calls>>
wfvars == <<mainvars, regvars, histvars>>

VARIABLES
  \* ---- one FacebookSession (facebook/session.py:18-46) and its get / post
  fb_dtsg,               \* self.fb_dtsg ("" for None)
  lsd,                   \* self.lsd ("" for None)
  max_redirects,         \* self.session.max_redirects
  hpc,                   \* the next step of the get / post call in progress
  call,                  \* the arguments of the call, and the caller's own body
  http_attempt,          \* the loop variable `attempt` of get / post
  lib,                   \* the requests call in progress: its purpose, its hooks waiting
  slept,                 \* history: what the call slept, in order
  answer                 \* what the call gave its caller

httpvars == <<fb_dtsg, lsd, max_redirects, hpc, call, http_attempt, lib, slept, answer>>

VARIABLES
  \* ---- one call of a method that computes its result from its arguments
  fn,                    \* the method called last ("none" before any call)
  fn_arg,                \* its arguments
  fn_ret                 \* what it returned

fnvars == <<fn, fn_arg, fn_ret>>

vars == <<pmvars, wfvars, httpvars, fnvars>>

-----------------------------------------------------------------------------
(* Bounds of the model *)

\* the proxy endpoints (ip:port pairs) that occur in the files
Endpoints == {1, 2}
\* a proxy file on disk at start-up has at most MaxLines lines
MaxLines == 2
\* the in-memory lists are explored up to this length (repeated load appends)
MaxPool == 2
\* forms on a page
MaxForms == 2
\* fields of a scraped form
MaxFields == 2

\* find_working_proxies(max_to_test=5) in main()
MainMaxToTest == 5

-----------------------------------------------------------------------------
(* Sequence helpers *)

Range(s) == {s[i] : i \in 1..Len(s)}

SeqsUpTo(S, n) == UNION {[1..k -> S] : k \in 0..n}

\* list.index(x): position of the first element equal to x (0 when absent)
IndexOf(s, x) ==
  IF x \in Range(s) THEN CHOOSE i \in 1..Len(s) : s[i] = x /\ \A j \in 1..(i-1) : s[j] # x
  ELSE 0

\* list.remove(x): removes the first element equal to x, and only that one
ListRemove(s, x) ==
  LET i == IndexOf(s, x)
  IN IF i = 0 THEN s ELSE SubSeq(s, 1, i-1) \o SubSeq(s, i+1, Len(s))

\* the orders random.shuffle can leave a list in
Shuffles(s) ==
  {[i \in 1..Len(s) |-> s[p[i]]] :
     p \in {q \in [1..Len(s) -> 1..Len(s)] : \A a, b \in 1..Len(s) : q[a] = q[b] => a = b}}

RECURSIVE SelectSeq2(_, _)
\* the elements of s whose position is in keep, in order
SelectSeq2(s, keep) ==
  IF s = <<>> THEN <<>>
  ELSE LET n == Len(s)
           front == SelectSeq2(SubSeq(s, 1, n-1), keep)
       IN IF n \in keep THEN Append(front, s[n]) ELSE front

-----------------------------------------------------------------------------
(* Strings.  A Python str is the sequence of its characters, so that `in`,
   split() and isdigit() are computed on the text itself. *)

Digits == {"0", "1", "2", "3", "4", "5", "6", "7", "8", "9"}

\* str.isdigit(): non-empty and every character a digit
IsDigit(s) == Len(s) > 0 /\ \A i \in 1..Len(s) : s[i] \in Digits

\* t in s
Contains(s, t) ==
  \E i \in 1..(Len(s) - Len(t) + 1) : SubSeq(s, i, i + Len(t) - 1) = t

\* any(t in s for t in terms)
ContainsAny(s, terms) == \E t \in terms : Contains(s, t)

RECURSIVE Split(_, _)
\* s.split(sep) for a one-character separator
Split(s, sep) ==
  IF \A i \in 1..Len(s) : s[i] # sep THEN <<s>>
  ELSE LET k == CHOOSE i \in 1..Len(s) : s[i] = sep /\ \A j \in 1..(i-1) : s[j] # sep
       IN <<SubSeq(s, 1, k-1)>> \o Split(SubSeq(s, k+1, Len(s)), sep)

\* the longest run of digits of s that starts at position i
DigitRun(s, i) ==
  LET stop == IF \E j \in i..Len(s) : s[j] \notin Digits
              THEN CHOOSE j \in i..Len(s) : s[j] \notin Digits /\ \A k \in i..(j-1) : s[k] \in Digits
              ELSE Len(s) + 1
  IN SubSeq(s, i, stop - 1)

\* re.search(prefix + r'(\d+)', s).group(1), or <<>> when there is no match
SearchDigitsAfter(s, prefix) ==
  LET hits == {i \in 1..(Len(s) - Len(prefix)) :
                 /\ SubSeq(s, i, i + Len(prefix) - 1) = prefix
                 /\ s[i + Len(prefix)] \in Digits}
  IN IF hits = {} THEN <<>>
     ELSE LET i == CHOOSE h \in hits : \A g \in hits : h <= g
          IN DigitRun(s, i + Len(prefix))

\* re.search(r'\/(\d{8,})\/', s).group(1), or <<>> when there is no match
SearchLongDigitsInSlashes(s) ==
  LET hits == {i \in 1..(Len(s) - 1) :
                 /\ s[i] = "/"
                 /\ Len(DigitRun(s, i + 1)) >= 8
                 /\ i + 1 + Len(DigitRun(s, i + 1)) <= Len(s)
                 /\ s[i + 1 + Len(DigitRun(s, i + 1))] = "/"}
  IN IF hits = {} THEN <<>>
     ELSE LET i == CHOOSE h \in hits : \A g \in hits : h <= g
          IN DigitRun(s, i + 1)


(* The substrings the workflow looks for in URLs and page texts *)
Lit ==
  [ checkpoint |->  \* "checkpoint"
        <<"c", "h", "e", "c", "k", "p", "o", "i", "n", "t">>,
    confirmemail |->  \* "confirmemail"
        <<"c", "o", "n", "f", "i", "r", "m", "e", "m", "a", "i", "l">>,
    confirm_email |->  \* "confirm_email"
        <<"c", "o", "n", "f", "i", "r", "m", "_", "e", "m", "a", "i", "l">>,
    confirmation |->  \* "confirmation"
        <<"c", "o", "n", "f", "i", "r", "m", "a", "t", "i", "o", "n">>,
    welcome |->  \* "welcome"
        <<"w", "e", "l", "c", "o", "m", "e">>,
    home |->  \* "home"
        <<"h", "o", "m", "e">>,
    home_php |->  \* "home.php"
        <<"h", "o", "m", "e", ".", "p", "h", "p">>,
    feed |->  \* "feed"
        <<"f", "e", "e", "d">>,
    confirm |->  \* "confirm"
        <<"c", "o", "n", "f", "i", "r", "m">>,
    confirmation_code |->  \* "confirmation code"
        <<"c", "o", "n", "f", "i", "r", "m", "a", "t", "i", "o", "n", " ",
        "c", "o", "d", "e">>,
    verification_code |->  \* "verification code"
        <<"v", "e", "r", "i", "f", "i", "c", "a", "t", "i", "o", "n", " ",
        "c", "o", "d", "e">>,
    check_your_email |->  \* "check your email"
        <<"c", "h", "e", "c", "k", " ", "y", "o", "u", "r", " ", "e", "m",
        "a", "i", "l">>,
    verify_your_account |->  \* "verify your account"
        <<"v", "e", "r", "i", "f", "y", " ", "y", "o", "u", "r", " ", "a",
        "c", "c", "o", "u", "n", "t">>,
    email |->  \* "email"
        <<"e", "m", "a", "i", "l">> ]

(* The prefixes of the user-id patterns of _extract_user_id_from_url *)
Pat ==
  [ user |->  \* "user="
        <<"u", "s", "e", "r", "=">>,
    uid |->  \* "uid="
        <<"u", "i", "d", "=">>,
    id |->  \* "id="
        <<"i", "d", "=">>,
    profile_id |->  \* "profile.php?id="
        <<"p", "r", "o", "f", "i", "l", "e", ".", "p", "h", "p", "?", "i",
        "d", "=">> ]

(* Upper-case letters that occur in the modelled pages, for str.lower() *)
Lower(s) ==
  LET LowerOf(c) ==
        CASE c = "C" -> "c" [] c = "E" -> "e" [] c = "I" -> "i" [] c = "T" -> "t"
          [] c = "N" -> "n"
          [] OTHER -> c
  IN [i \in 1..Len(s) |-> LowerOf(s[i])]

(* Cookie values.  Random values are represented by one draw each; the shape
   (what is a digit, where the separators are) is that of the code's format. *)
Val ==
  [ locale |->  \* "en_US"
        <<"e", "n", "_", "U", "S">>,
    wd |->  \* "1280x720"   one of the random.choice screen sizes
        <<"1", "2", "8", "0", "x", "7", "2", "0">>,
    dpr |->  \* "1.5"
        <<"1", ".", "5">>,
    presence |->  \* "4815162"   f"{random.randint(1000000, 9999999)}"
        <<"4", "8", "1", "5", "1", "6", "2">>,
    sb |->  \* "sB-24chars"   _generate_random_cookie_value(24), shortened
        <<"s", "B", "-", "2", "4", "c", "h", "a", "r", "s">>,
    datr |->  \* "dA_24chars"   _generate_random_cookie_value(24), shortened
        <<"d", "A", "_", "2", "4", "c", "h", "a", "r", "s">>,
    fr_seeded |->  \* "123456.654321.1762154000.0.0.84"   f"{browser_id}.{int(time.time())}.0.{random.random()}"
        <<"1", "2", "3", "4", "5", "6", ".", "6", "5", "4", "3", "2", "1",
        ".", "1", "7", "6", "2", "1", "5", "4", "0", "0", "0", ".", "0", ".",
        "0", ".", "8", "4">>,
    fr_site |->  \* "0abC.AWXy"   an fr value as the site sets it
        <<"0", "a", "b", "C", ".", "A", "W", "X", "y">>,
    c_user |->  \* "100004567"   a user id the site sets
        <<"1", "0", "0", "0", "0", "4", "5", "6", "7">>,
    xs |->  \* "34:tOk"   an xs value as the site sets it
        <<"3", "4", ":", "t", "O", "k">>,
    empty |->  \* ""
        <<>>,
    script_uid |->  \* "100009"
        <<"1", "0", "0", "0", "0", "9">>,
    none |->  \* None: the value of a cookie sent without one ("Set-Cookie: datr")
        <<"None">> ]

(* Response URLs the site can answer with *)
Url ==
  [ reg |->  \* "https://m.facebook.com/reg/"
        <<"h", "t", "t", "p", "s", ":", "/", "/", "m", ".", "f", "a", "c",
        "e", "b", "o", "o", "k", ".", "c", "o", "m", "/", "r", "e", "g", "/">>,
    checkpoint |->  \* "https://m.facebook.com/checkpoint/"
        <<"h", "t", "t", "p", "s", ":", "/", "/", "m", ".", "f", "a", "c",
        "e", "b", "o", "o", "k", ".", "c", "o", "m", "/", "c", "h", "e", "c",
        "k", "p", "o", "i", "n", "t", "/">>,
    confirmemail |->  \* "https://m.facebook.com/confirmemail.php"
        <<"h", "t", "t", "p", "s", ":", "/", "/", "m", ".", "f", "a", "c",
        "e", "b", "o", "o", "k", ".", "c", "o", "m", "/", "c", "o", "n", "f",
        "i", "r", "m", "e", "m", "a", "i", "l", ".", "p", "h", "p">>,
    home |->  \* "https://m.facebook.com/home.php"
        <<"h", "t", "t", "p", "s", ":", "/", "/", "m", ".", "f", "a", "c",
        "e", "b", "o", "o", "k", ".", "c", "o", "m", "/", "h", "o", "m", "e",
        ".", "p", "h", "p">>,
    welcome_id |->  \* "https://m.facebook.com/welcome/?uid=77"
        <<"h", "t", "t", "p", "s", ":", "/", "/", "m", ".", "f", "a", "c",
        "e", "b", "o", "o", "k", ".", "c", "o", "m", "/", "w", "e", "l", "c",
        "o", "m", "e", "/", "?", "u", "i", "d", "=", "7", "7">>,
    login |->  \* "https://m.facebook.com/login/"
        <<"h", "t", "t", "p", "s", ":", "/", "/", "m", ".", "f", "a", "c",
        "e", "b", "o", "o", "k", ".", "c", "o", "m", "/", "l", "o", "g", "i",
        "n", "/">> ]

(* Page texts and error messages the site can answer with *)
Text ==
  [ none |->  \* ""
        <<>>,
    enter_the_code |->  \* "Enter the code"
        <<"E", "n", "t", "e", "r", " ", "t", "h", "e", " ", "c", "o", "d",
        "e">>,
    check_your_email |->  \* "Check your email"
        <<"C", "h", "e", "c", "k", " ", "y", "o", "u", "r", " ", "e", "m",
        "a", "i", "l">>,
    invalid_email |->  \* "Invalid email"
        <<"I", "n", "v", "a", "l", "i", "d", " ", "e", "m", "a", "i", "l">>,
    try_again |->  \* "try again"
        <<"t", "r", "y", " ", "a", "g", "a", "i", "n">> ]

-----------------------------------------------------------------------------
(* The cookie jar: a dict from cookie name to value (get_cookies_dict) *)

\* session.cookies.set(name, value)
SetCookie(jar, name, value) ==
  [n \in DOMAIN jar \cup {name} |-> IF n = name THEN value ELSE jar[n]]

\* _setup_browser_state(): the cookies a new FacebookSession starts with
SeededJar ==
  [n \in {"locale", "wd", "dpr", "m_pixel_ratio", "presence", "sb", "datr", "fr"} |->
     CASE n = "locale" -> Val.locale
       [] n = "wd" -> Val.wd
       [] n = "dpr" -> Val.dpr
       [] n = "m_pixel_ratio" -> Val.dpr
       [] n = "presence" -> Val.presence
       [] n = "sb" -> Val.sb
       [] n = "datr" -> Val.datr
       [] n = "fr" -> Val.fr_seeded]

\* the cookies clear_cookies(preserve_fingerprint=True) saves and restores
FingerprintCookies == {"datr", "sb", "locale", "wd", "dpr", "fr"}

\* clear_cookies(preserve_fingerprint): the fingerprint cookies of the jar are
\* saved, the jar is cleared, and set_cookie(name, value) is called for each
\* saved one; session.cookies.set with the value None removes the cookie of
\* that name instead of setting it
ClearCookies(jar, preserve_fingerprint) ==
  IF preserve_fingerprint
  THEN LET saved == DOMAIN jar \cap FingerprintCookies
       IN [n \in {k \in saved : jar[k] # Val.none} |-> jar[n]]
  ELSE SeededJar

\* _enhanced_warmup_session(): the cookies set after the last warm-up GET
WarmupCookies(jar) ==
  SetCookie(SetCookie(SetCookie(jar, "locale", Val.locale), "wd", Val.wd), "dpr", Val.dpr)

\* What a response (or the redirects before an error) can do to the jar:
\* the Set-Cookie headers of the site
CookieEffects == {"none", "c_user", "c_user_empty", "xs", "fr", "expire_all"}

ApplyCookies(jar, effect) ==
  CASE effect = "c_user" -> SetCookie(jar, "c_user", Val.c_user)
    [] effect = "c_user_empty" -> SetCookie(jar, "c_user", Val.empty)
    [] effect = "xs" -> SetCookie(jar, "xs", Val.xs)
    [] effect = "fr" -> SetCookie(jar, "fr", Val.fr_site)
    [] effect = "expire_all" -> [n \in {} |-> <<>>]   \* no cookie left
    [] OTHER -> jar

\* "c_user" in cookies and cookies["c_user"]
HasUserCookie(jar) == "c_user" \in DOMAIN jar /\ jar["c_user"] \notin {<<>>, Val.none}

-----------------------------------------------------------------------------
(* Results of the workflow: the dict (or False) a strategy returns *)

CommonKeys == {"first_name", "last_name", "email", "password", "gender"}

\* the dict _finalize_account returns with 'success': True
SuccessInfo(user_id) ==
  [isdict |-> TRUE, keys |-> CommonKeys \cup {"success", "user_id"},
   success |-> TRUE, partial |-> FALSE, verification_required |-> FALSE,
   user_id |-> user_id]

\* _create_partial_account_info()
PartialInfo ==
  [isdict |-> TRUE, keys |-> CommonKeys \cup {"success", "partial"},
   success |-> FALSE, partial |-> TRUE, verification_required |-> FALSE,
   user_id |-> <<>>]

\* _create_verification_info(): the handler is not called, the dict carries
\* the verify_func closure
VerificationInfo ==
  [isdict |-> TRUE, keys |-> CommonKeys \cup {"verification_required", "verify_func"},
   success |-> FALSE, partial |-> FALSE, verification_required |-> TRUE,
   user_id |-> <<>>]

\* the value False
FalseResult ==
  [isdict |-> FALSE, keys |-> {}, success |-> FALSE, partial |-> FALSE,
   verification_required |-> FALSE, user_id |-> <<>>]

\* a result that has not been produced yet
NoResult ==
  [isdict |-> FALSE, keys |-> {"<none>"}, success |-> FALSE, partial |-> FALSE,
   verification_required |-> FALSE, user_id |-> <<>>]

\* bool(result)
Truthy(r) == r.isdict

\* The four outcomes of the spec, read off a returned value
Outcome(r) ==
  IF ~r.isdict THEN "Failure"
  ELSE IF r.success THEN "Success"
  ELSE IF r.verification_required THEN "VerificationRequired"
  ELSE "Partial"

\* _infer_user_id_from_cookies(): <<>> stands for None
InferUserIdFromCookies(jar) ==
  LET xs_parts == IF "xs" \in DOMAIN jar THEN Split(jar["xs"], ":") ELSE <<>>
      fr_parts == IF "fr" \in DOMAIN jar THEN Split(jar["fr"], ".") ELSE <<>>
      fr_hits == {i \in 1..Len(fr_parts) : IsDigit(fr_parts[i]) /\ Len(fr_parts[i]) > 8}
      others == <<"i_user", "presence", "a_user">>
      oth_hits == {i \in 1..3 : others[i] \in DOMAIN jar /\ IsDigit(jar[others[i]])}
  IN IF Len(xs_parts) >= 2 /\ IsDigit(xs_parts[1]) THEN xs_parts[1]
     ELSE IF fr_hits # {} THEN fr_parts[CHOOSE i \in fr_hits : \A j \in fr_hits : i <= j]
     ELSE IF oth_hits # {} THEN jar[others[CHOOSE i \in oth_hits : \A j \in oth_hits : i <= j]]
     ELSE <<>>

\* Variant of _finalize_account without the downgrade to partial info
FinalizeWithoutDowngrade(user_id, jar) ==
  SuccessInfo(IF user_id # <<>> THEN user_id
              ELSE IF "c_user" \in DOMAIN jar THEN jar["c_user"] ELSE <<>>)

\* _finalize_account(user_id): <<>> stands for no argument
FinalizeAccount(user_id, jar) ==
  LET c_user == IF "c_user" \in DOMAIN jar THEN jar["c_user"] ELSE <<>>
      uid == IF user_id # <<>> THEN user_id ELSE c_user
      inferred == InferUserIdFromCookies(jar)
  IN IF uid # <<>> THEN SuccessInfo(uid)
     ELSE IF inferred # <<>> THEN SuccessInfo(inferred)
     ELSE PartialInfo

\* _extract_user_id_from_url(url): the first pattern that matches
ExtractUserIdFromUrl(url) ==
  LET tries == <<SearchDigitsAfter(url, Pat.user), SearchDigitsAfter(url, Pat.uid),
                 SearchDigitsAfter(url, Pat.id), SearchDigitsAfter(url, Pat.profile_id),
                 SearchLongDigitsInSlashes(url)>>
      hits == {i \in 1..5 : tries[i] # <<>>}
  IN IF hits = {} THEN <<>> ELSE tries[CHOOSE i \in hits : \A j \in hits : i <= j]

-----------------------------------------------------------------------------
(* Responses of the site, as far as the workflow reads them *)

\* status: status_code; url: response.url; reg_form / login_form: whether
\* _find_registration_form / find('form', id='login_form') finds a form in
\* the page; text: the page text; errors: what _extract_error_messages
\* returns; script_uid: the id in a "USER_ID":"..." script, <<>> when none
Page(status, url, reg_form, login_form, text, errors, script_uid) ==
  [status |-> status, url |-> url, reg_form |-> reg_form, login_form |-> login_form,
   text |-> text, errors |-> errors, script_uid |-> script_uid]

Pages ==
  { Page(200, Url.reg, TRUE, FALSE, Text.none, <<>>, <<>>),                \* signup form
    Page(200, Url.reg, FALSE, FALSE, Text.none, <<>>, <<>>),               \* nothing recognisable
    Page(404, Url.reg, FALSE, FALSE, Text.none, <<>>, <<>>),               \* not found
    Page(200, Url.checkpoint, FALSE, FALSE, Text.enter_the_code, <<>>, <<>>),
    Page(200, Url.confirmemail, FALSE, FALSE, Text.enter_the_code, <<>>, <<>>),
    Page(200, Url.home, FALSE, FALSE, Text.none, <<>>, <<>>),
    Page(200, Url.welcome_id, FALSE, FALSE, Text.none, <<>>, <<>>),
    Page(200, Url.login, FALSE, TRUE, Text.none, <<>>, <<>>),              \* login form
    Page(200, Url.reg, FALSE, FALSE, Text.check_your_email, <<>>, <<>>),
    Page(200, Url.reg, FALSE, FALSE, Text.none, <<Text.invalid_email>>, <<>>),
    Page(200, Url.reg, FALSE, FALSE, Text.none, <<Text.try_again>>, <<>>),
    Page(200, Url.reg, FALSE, FALSE, Text.none, <<>>, Val.script_uid) }

\* The exceptions a session.get / session.post lets through after its retries
TransportErrors == {"TooManyRedirects", "ConnectionError", "Timeout"}

\* What one session.get / session.post call can do.  kind "response": a
\* page; "none": the call returned None (a redirect-cap overrun on every
\* attempt for a URL outside facebook.com); "raise": an exception.  cookies:
\* what the exchanged responses did to the jar.
Returned(page, effect) == [kind |-> "response", page |-> page, cookies |-> effect, exc |-> "none"]
ReturnedNone(effect) ==
  [kind |-> "none", page |-> Page(0, <<>>, FALSE, FALSE, <<>>, <<>>, <<>>),
   cookies |-> effect, exc |-> "none"]
Raised(exc, effect) ==
  [kind |-> "raise", page |-> Page(0, <<>>, FALSE, FALSE, <<>>, <<>>, <<>>),
   cookies |-> effect, exc |-> exc]

\* The site sets the cookies of a logged-in session (c_user, xs) only once
\* a registration or login form has been posted; before that a response can
\* only refresh fr or expire what the jar holds.
AnonymousEffects == {"none", "fr", "expire_all"}

\* a GET of a facebook.com URL before any form was posted
AnonymousOutcomes ==
  {Returned(p, e) : p \in Pages, e \in AnonymousEffects}
    \cup {Raised(x, "none") : x \in TransportErrors}

\* the same for a URL outside facebook.com (google.com)
AnonymousAnyOutcomes == AnonymousOutcomes \cup {ReturnedNone("none")}

\* a request to a facebook.com URL at or after a form POST
SessionOutcomes ==
  {Returned(p, e) : p \in Pages, e \in CookieEffects}
    \cup {Raised(x, e) : x \in TransportErrors, e \in {"none", "c_user"}}

\* a POST to a form action, which may lie outside facebook.com
SessionAnyOutcomes == SessionOutcomes \cup {ReturnedNone("none")}

-----------------------------------------------------------------------------
(* Outcome classification after each POST / GET *)

\* What a classification decides: return a value from the function, raise,
\* or go on to a further request
Return(r) == [do |-> "return", result |-> r, finalized |-> FALSE, arg |-> <<>>, exc |-> "none"]
\* return self._finalize_account(arg)
ReturnFinalized(arg, jar) ==
  [do |-> "return", result |-> FinalizeAccount(arg, jar), finalized |-> TRUE,
   arg |-> arg, exc |-> "none"]
GoOn(to) == [do |-> to, result |-> NoResult, finalized |-> FALSE, arg |-> <<>>, exc |-> "none"]
\* an attribute read on None
Throw(exc) == [do |-> "raise", result |-> NoResult, finalized |-> FALSE, arg |-> <<>>, exc |-> exc]

RegistrationVerificationTerms == {Lit.checkpoint, Lit.confirmemail, Lit.confirm_email, Lit.confirmation}
VerificationPhrases ==
  {Lit.confirmation_code, Lit.verification_code, Lit.check_your_email, Lit.verify_your_account}

\* The except clauses.  caught: whether the clause stops the exception;
\* result: what the function then returns.
\* an except clause around the warm-up that stops time-outs only
WarmupExceptTimeout(exc) == [caught |-> exc = "Timeout", result |-> NoResult]
\* except Exception: logger.debug(...), around the body of
\* _enhanced_warmup_session; the function then returns None
WarmupExcept(exc) == [caught |-> TRUE, result |-> NoResult]
\* except Exception: return False, around the body of each strategy
StrategyExcept(exc) == [caught |-> TRUE, result |-> FalseResult]
\* except Exception: return False, around _attempt_login_with_credentials
LoginExcept(exc) == [caught |-> TRUE, result |-> FalseResult]
\* except Exception: return self._create_partial_account_info(), around
\* _visit_homepage_for_cookies
HomepageExcept(exc) == [caught |-> TRUE, result |-> PartialInfo]

\* Variant in which _visit_homepage_for_cookies has no except clause of its own
HandlersWithoutHomepage(chain, exc) ==
  CASE chain = "homepage" -> <<LoginExcept(exc), StrategyExcept(exc)>>
    [] chain = "login" -> <<LoginExcept(exc), StrategyExcept(exc)>>
    [] OTHER -> <<StrategyExcept(exc)>>

\* The try blocks an exception passes on its way out, innermost first
Handlers(chain, exc) ==
  CASE chain = "homepage" -> <<HomepageExcept(exc), LoginExcept(exc), StrategyExcept(exc)>>
    [] chain = "login" -> <<LoginExcept(exc), StrategyExcept(exc)>>
    [] OTHER -> <<StrategyExcept(exc)>>

\* any("email" in err.lower() for err in error_messages)
EmailError(errs) == \E i \in 1..Len(errs) : Contains(Lower(errs[i]), Lit.email)

\* Variant of the mobile classification that looks at the URL before the cookie
MobileClassifyUrlFirst(jar, out, attempts, max_attempts) ==
  IF out.kind = "none" THEN Throw("AttributeError")
  ELSE IF ContainsAny(out.page.url, RegistrationVerificationTerms) THEN Return(VerificationInfo)
  ELSE IF HasUserCookie(jar) THEN ReturnFinalized(jar["c_user"], jar)
  ELSE GoOn("login")

\* _mobile_registration, after the POST (registration.py:236-305)
MobileClassify(jar, out, attempts, max_attempts) ==
  IF HasUserCookie(jar) THEN ReturnFinalized(jar["c_user"], jar)
  ELSE IF out.kind = "none" THEN Throw("AttributeError")  \* registration_response.url
  ELSE IF ContainsAny(out.page.url, RegistrationVerificationTerms) THEN Return(VerificationInfo)
  ELSE IF Contains(out.page.url, Lit.welcome) \/ Contains(out.page.url, Lit.home)
       THEN ReturnFinalized(ExtractUserIdFromUrl(out.page.url), jar)
  ELSE IF out.page.login_form THEN GoOn("login")
  ELSE IF ContainsAny(Lower(out.page.text), VerificationPhrases) THEN Return(VerificationInfo)
  ELSE IF out.page.errors # <<>> /\ attempts < max_attempts
       THEN IF EmailError(out.page.errors)
            THEN Return(FalseResult)   \* an email error
            ELSE Return(FalseResult)   \* "For other errors, try desktop registration"
  ELSE GoOn("login")

\* _desktop_registration, after the POST (registration.py:617-660)
DesktopClassify(jar, out) ==
  IF HasUserCookie(jar) THEN ReturnFinalized(jar["c_user"], jar)
  ELSE IF out.kind = "none" THEN Throw("AttributeError")
  ELSE IF ContainsAny(out.page.url, RegistrationVerificationTerms) THEN Return(VerificationInfo)
  ELSE IF Contains(out.page.url, Lit.welcome) \/ Contains(out.page.url, Lit.home)
       THEN ReturnFinalized(ExtractUserIdFromUrl(out.page.url), jar)
  ELSE GoOn("login")

\* _api_registration, after the POST (registration.py:425-448)
ApiClassify(jar, out) ==
  IF HasUserCookie(jar) THEN ReturnFinalized(jar["c_user"], jar)
  ELSE IF out.kind = "none" THEN Throw("AttributeError")
  ELSE IF ContainsAny(out.page.url, RegistrationVerificationTerms) THEN Return(VerificationInfo)
  ELSE GoOn("login")

\* _attempt_login_with_credentials, after the GET(s) of the login page
\* (registration.py:967-983)
LoginPageClassify(jar, out) ==
  IF out.page.login_form THEN GoOn("post")
  ELSE IF HasUserCookie(jar) THEN ReturnFinalized(jar["c_user"], jar)
  ELSE Return(FalseResult)

\* _attempt_login_with_credentials, after the POST (registration.py:1077-1110)
LoginClassify(jar, out) ==
  IF HasUserCookie(jar) THEN ReturnFinalized(jar["c_user"], jar)
  ELSE IF out.kind = "none" THEN Throw("AttributeError")
  ELSE IF Contains(out.page.url, Lit.checkpoint) \/ Contains(out.page.url, Lit.confirmation)
       THEN Return(VerificationInfo)
  ELSE IF Contains(out.page.url, Lit.home_php) \/ Contains(out.page.url, Lit.feed)
       THEN ReturnFinalized(ExtractUserIdFromUrl(out.page.url), jar)
  ELSE GoOn("homepage")

\* _visit_homepage_for_cookies, after the GET of the home page
\* (registration.py:1127-1158)
HomepageClassify(jar, out) ==
  IF HasUserCookie(jar) THEN ReturnFinalized(jar["c_user"], jar)
  ELSE IF Contains(out.page.url, Lit.checkpoint) \/ Contains(out.page.url, Lit.confirm)
       THEN Return(VerificationInfo)
  ELSE IF out.page.script_uid # <<>> THEN ReturnFinalized(out.page.script_uid, jar)
  ELSE GoOn("profile")

\* _visit_homepage_for_cookies, after the GET of the profile page
\* (registration.py:1164-1188)
ProfileClassify(jar, out) ==
  IF HasUserCookie(jar) THEN ReturnFinalized(jar["c_user"], jar)
  ELSE IF Contains(out.page.url, Lit.checkpoint) \/ Contains(out.page.url, Lit.confirm)
       THEN Return(VerificationInfo)
  ELSE IF ExtractUserIdFromUrl(out.page.url) # <<>>
       THEN ReturnFinalized(ExtractUserIdFromUrl(out.page.url), jar)
  ELSE Return(PartialInfo)

-----------------------------------------------------------------------------
(* Proxy files: lines and their parsing *)

\* A line of a proxy file.  kind is the shape of the text:
\*   "ip_port"            ip:port
\*   "ip_port_user_pass"  ip:port:username:password
\*   "user_pass_at"       username:password@ip:port
\*   "comment"            blank, #-comment, or any other number of ':' parts
Line(kind, ip) == [kind |-> kind, ip |-> ip]

\* A proxy dict: the endpoint and whether it carries username/password keys
Proxy(ip, auth) == [ip |-> ip, auth |-> auth]

\* Python's None where a proxy is expected
NoneProxy == Proxy(0, FALSE)

\* A file: whether it exists (os.path.exists) and its lines
File(lines) == [exists |-> TRUE, lines |-> lines]
NoFile == [exists |-> FALSE, lines |-> <<>>]

\* lines the list file can hold at start-up
ListLines ==
  {Line("ip_port", e) : e \in Endpoints} \cup {Line("user_pass_at", 1)}

\* lines the cache of tested proxies can hold at start-up (4-part lines get
\* there when a proxy with credentials is saved)
CacheLines == {Line("ip_port", e) : e \in Endpoints}

\* _load_working_proxies: 4 parts and 2 parts are parsed, anything else skipped
RECURSIVE ParseWorking(_)
ParseWorking(lines) ==
  IF lines = <<>> THEN <<>>
  ELSE LET l == Head(lines)
           rest == ParseWorking(Tail(lines))
       IN CASE l.kind = "ip_port_user_pass" -> <<Proxy(l.ip, TRUE)>> \o rest
            [] l.kind = "ip_port"           -> <<Proxy(l.ip, FALSE)>> \o rest
            [] OTHER                        -> rest

\* _load_proxies_from_file: as above, and a line with '@' is user:pass@ip:port
RECURSIVE ParseList(_)
ParseList(lines) ==
  IF lines = <<>> THEN <<>>
  ELSE LET l == Head(lines)
           rest == ParseList(Tail(lines))
       IN CASE l.kind = "ip_port_user_pass" -> <<Proxy(l.ip, TRUE)>> \o rest
            [] l.kind = "ip_port"           -> <<Proxy(l.ip, FALSE)>> \o rest
            [] l.kind = "user_pass_at"      -> <<Proxy(l.ip, TRUE)>> \o rest
            [] OTHER                        -> rest

\* _save_working_proxies: one line per proxy, 4 parts when it has credentials
FormatWorking(ps) ==
  [i \in 1..Len(ps) |->
     IF ps[i].auth THEN Line("ip_port_user_pass", ps[i].ip)
     ELSE Line("ip_port", ps[i].ip)]

-----------------------------------------------------------------------------
(* ProxyManager operations, as functions of the object's fields *)

\* What the remote list provider can answer: a failure, or a list to save
ApiFail == [ok |-> FALSE, lines |-> <<>>]
ApiAnswers ==
  {ApiFail} \cup {[ok |-> TRUE, lines |-> l] :
                    l \in SeqsUpTo({Line("ip_port", 1), Line("comment", 0)}, 1)}

\* load_proxies(): returns the new lists, the new list file and the result
LoadProxies(ps, wps, pf, wf, api) ==
  LET wps1 == IF wf.exists THEN wps \o ParseWorking(wf.lines) ELSE wps
  IN IF wf.exists /\ Len(wps1) > 0
     THEN \* working proxies loaded; the list file is the backup
          [proxies |-> IF pf.exists THEN ps \o ParseList(pf.lines) ELSE ps,
           working |-> wps1, proxy_file |-> pf, ok |-> TRUE]
     ELSE IF pf.exists
     THEN LET ps1 == ps \o ParseList(pf.lines)
          IN [proxies |-> ps1, working |-> wps1, proxy_file |-> pf,
              ok |-> Len(ps1) > 0]
     ELSE IF api.ok
     THEN \* _fetch_proxies_from_api: save the answer, then load it
          LET ps1 == ps \o ParseList(api.lines)
          IN [proxies |-> ps1, working |-> wps1, proxy_file |-> File(api.lines),
              ok |-> Len(ps1) > 0]
     ELSE [proxies |-> ps, working |-> wps1, proxy_file |-> pf, ok |-> FALSE]

\* get_proxy() with the two tests in the other order: any proxy first
GetProxyChoicesRawFirst(ps, wps) ==
  IF Len(ps) > 0 THEN Range(ps)
  ELSE IF Len(wps) > 0 THEN Range(wps)
  ELSE {}

\* get_proxy(): the lists random.choice may draw from
GetProxyChoices(ps, wps) ==
  IF Len(wps) > 0 THEN Range(wps)
  ELSE IF Len(ps) > 0 THEN Range(ps)
  ELSE {}

\* get_next_proxy(): the successor of the current proxy in the preferred list;
\* NoneProxy stands for "falls back to get_proxy()"
GetNextProxyStep(ps, wps, cur) ==
  LET pool == IF Len(wps) > 0 THEN wps ELSE ps
  IN IF Len(pool) = 0 \/ cur = NoneProxy \/ IndexOf(pool, cur) = 0 THEN NoneProxy
     ELSE pool[(IndexOf(pool, cur) % Len(pool)) + 1]

\* remove_current_proxy(): the new lists and the new cache file
RemoveCurrentProxy(ps, wps, cur, wf) ==
  IF cur = NoneProxy
  THEN [proxies |-> ps, working |-> wps, working_file |-> wf, removed |-> FALSE]
  ELSE LET inW == cur \in Range(wps)
           wps1 == IF inW THEN ListRemove(wps, cur) ELSE wps
       IN [proxies |-> IF cur \in Range(ps) THEN ListRemove(ps, cur) ELSE ps,
           working |-> wps1,
           working_file |-> IF inW THEN File(FormatWorking(wps1)) ELSE wf,
           removed |-> inW \/ cur \in Range(ps)]

\* find_working_proxies(max_to_test): order is one shuffle of self.proxies,
\* passed the positions (in that order) whose test_proxy returned True
FindWorkingProxies(order, max_to_test, passed, wf) ==
  LET to_test == IF max_to_test > 0 /\ max_to_test < Len(order)
                 THEN SubSeq(order, 1, max_to_test) ELSE order
      wps1 == SelectSeq2(to_test, passed)
  IN [working |-> wps1,
      working_file |-> IF Len(wps1) > 0 THEN File(FormatWorking(wps1)) ELSE wf,
      ok |-> Len(wps1) > 0]

-----------------------------------------------------------------------------
(* FacebookSession: URLs, responses, the response hook, the tokens *)

\* s.startswith(p)
StartsWith(s, p) == Len(s) >= Len(p) /\ SubSeq(s, 1, Len(p)) = p

\* position of the first occurrence of t in s at or after i, 0 when none
Find(s, t, i) ==
  LET hits == {k \in i..(Len(s) - Len(t) + 1) : SubSeq(s, k, k + Len(t) - 1) = t}
  IN IF hits = {} THEN 0 ELSE CHOOSE k \in hits : \A g \in hits : k <= g

RECURSIVE Replace(_, _, _)
\* s.replace(old, new): every occurrence, left to right, without overlap
Replace(s, old, new) ==
  LET k == Find(s, old, 1)
  IN IF k = 0 THEN s
     ELSE SubSeq(s, 1, k - 1) \o new \o Replace(SubSeq(s, k + Len(old), Len(s)), old, new)

RECURSIVE Unquote(_)
\* urllib.parse.unquote for the escapes that occur in the modelled URLs
Unquote(s) ==
  IF s = <<>> THEN <<>>
  ELSE IF Len(s) >= 3 /\ s[1] = "%"
  THEN LET code == SubSeq(s, 2, 3)
           ch == CASE code = <<"3", "A">> -> <<":">>
                   [] code = <<"2", "F">> -> <<"/">>
                   [] code = <<"3", "F">> -> <<"?">>
                   [] code = <<"3", "D">> -> <<"=">>
                   [] code = <<"2", "5">> -> <<"%">>
                   [] OTHER -> SubSeq(s, 1, 3)
       IN ch \o Unquote(SubSeq(s, 4, Len(s)))
  ELSE <<s[1]>> \o Unquote(Tail(s))

(* The URLs of the session model: what the workflow requests, where the
   site redirects to, and the literals get / post / the hook compare with *)
HUrl ==
  [ google |->  \* "https://www.google.com/s"
        <<"h", "t", "t", "p", "s", ":", "/", "/", "w", "w", "w", ".",
        "g", "o", "o", "g", "l", "e", ".", "c", "o", "m", "/", "s">>,
    reg |->  \* "https://m.facebook.com/reg/"
        <<"h", "t", "t", "p", "s", ":", "/", "/", "m", ".", "f", "a",
        "c", "e", "b", "o", "o", "k", ".", "c", "o", "m", "/", "r",
        "e", "g", "/">>,
    login |->  \* "https://m.facebook.com/login/"
        <<"h", "t", "t", "p", "s", ":", "/", "/", "m", ".", "f", "a",
        "c", "e", "b", "o", "o", "k", ".", "c", "o", "m", "/", "l",
        "o", "g", "i", "n", "/">>,
    loc_app |->  \* "fbredirect://a?uri=https%3A%2F%2Fm.facebook.com%2Fh"
        <<"f", "b", "r", "e", "d", "i", "r", "e", "c", "t", ":", "/",
        "/", "a", "?", "u", "r", "i", "=", "h", "t", "t", "p", "s",
        "%", "3", "A", "%", "2", "F", "%", "2", "F", "m", ".", "f",
        "a", "c", "e", "b", "o", "o", "k", ".", "c", "o", "m", "%",
        "2", "F", "h">>,
    loc_app_bare |->  \* "fbredirect://a"
        <<"f", "b", "r", "e", "d", "i", "r", "e", "c", "t", ":", "/",
        "/", "a">>,
    loc_www |->  \* "https://www.facebook.com/h?a=1"
        <<"h", "t", "t", "p", "s", ":", "/", "/", "w", "w", "w", ".",
        "f", "a", "c", "e", "b", "o", "o", "k", ".", "c", "o", "m",
        "/", "h", "?", "a", "=", "1">>,
    loc_nonwww |->  \* "https://facebook.com/h?a=1"
        <<"h", "t", "t", "p", "s", ":", "/", "/", "f", "a", "c", "e",
        "b", "o", "o", "k", ".", "c", "o", "m", "/", "h", "?", "a",
        "=", "1">>,
    loc_checkpoint |->  \* "https://m.facebook.com/checkpoint/"
        <<"h", "t", "t", "p", "s", ":", "/", "/", "m", ".", "f", "a",
        "c", "e", "b", "o", "o", "k", ".", "c", "o", "m", "/", "c",
        "h", "e", "c", "k", "p", "o", "i", "n", "t", "/">>,
    loc_plain |->  \* "https://m.facebook.com/h"
        <<"h", "t", "t", "p", "s", ":", "/", "/", "m", ".", "f", "a",
        "c", "e", "b", "o", "o", "k", ".", "c", "o", "m", "/", "h">>,
    app_scheme |->  \* "fbredirect://"
        <<"f", "b", "r", "e", "d", "i", "r", "e", "c", "t", ":", "/",
        "/">>,
    nonwww_prefix |->  \* "https://facebook.com/"
        <<"h", "t", "t", "p", "s", ":", "/", "/", "f", "a", "c", "e",
        "b", "o", "o", "k", ".", "c", "o", "m", "/">>,
    www_prefix |->  \* "https://www.facebook.com/"
        <<"h", "t", "t", "p", "s", ":", "/", "/", "w", "w", "w", ".",
        "f", "a", "c", "e", "b", "o", "o", "k", ".", "c", "o", "m",
        "/">>,
    www_host |->  \* "www.facebook.com"
        <<"w", "w", "w", ".", "f", "a", "c", "e", "b", "o", "o", "k",
        ".", "c", "o", "m">>,
    host |->  \* "facebook.com"
        <<"f", "a", "c", "e", "b", "o", "o", "k", ".", "c", "o", "m">>,
    m_host |->  \* "m.facebook.com"
        <<"m", ".", "f", "a", "c", "e", "b", "o", "o", "k", ".", "c",
        "o", "m">>,
    mobile_dir |->  \* "/mobile/"
        <<"/", "m", "o", "b", "i", "l", "e", "/">>,
    uri_key |->  \* "uri="
        <<"u", "r", "i", "=">>,
    reg_word |->  \* "reg"
        <<"r", "e", "g">>,
    login_word |->  \* "login"
        <<"l", "o", "g", "i", "n">>,
    post_reg |->  \* "https://m.facebook.com/reg/submit/?cid=103"
        <<"h", "t", "t", "p", "s", ":", "/", "/", "m", ".", "f", "a",
        "c", "e", "b", "o", "o", "k", ".", "c", "o", "m", "/", "r",
        "e", "g", "/", "s", "u", "b", "m", "i", "t", "/", "?", "c",
        "i", "d", "=", "1", "0", "3">>,
    post_login |->  \* "https://m.facebook.com/login/device-based/regular/login/?cid=103"
        <<"h", "t", "t", "p", "s", ":", "/", "/", "m", ".", "f", "a",
        "c", "e", "b", "o", "o", "k", ".", "c", "o", "m", "/", "l",
        "o", "g", "i", "n", "/", "d", "e", "v", "i", "c", "e", "-",
        "b", "a", "s", "e", "d", "/", "r", "e", "g", "u", "l", "a",
        "r", "/", "l", "o", "g", "i", "n", "/", "?", "c", "i", "d",
        "=", "1", "0", "3">>,
    submit |->  \* "https://m.facebook.com/reg/submit/"
        <<"h", "t", "t", "p", "s", ":", "/", "/", "m", ".", "f", "a",
        "c", "e", "b", "o", "o", "k", ".", "c", "o", "m", "/", "r",
        "e", "g", "/", "s", "u", "b", "m", "i", "t", "/">>,
    r_php |->  \* "https://m.facebook.com/r.php"
        <<"h", "t", "t", "p", "s", ":", "/", "/", "m", ".", "f", "a",
        "c", "e", "b", "o", "o", "k", ".", "c", "o", "m", "/", "r",
        ".", "p", "h", "p">> ]

\* parse_qs(urlparse(url).query)['uri'][0], <<>> when 'uri' is not in it
UriParam(url) ==
  LET q == Find(url, <<"?">>, 1)
      pairs == IF q = 0 THEN <<>> ELSE Split(SubSeq(url, q + 1, Len(url)), "&")
      hits == {i \in 1..Len(pairs) :
                 StartsWith(pairs[i], HUrl.uri_key) /\ Len(pairs[i]) > Len(HUrl.uri_key)}
  IN IF hits = {} THEN <<>>
     ELSE LET i == CHOOSE h \in hits : \A g \in hits : h <= g
          IN Unquote(SubSeq(pairs[i], Len(HUrl.uri_key) + 1, Len(pairs[i])))

\* url.replace('www.facebook.com', 'm.facebook.com').replace('facebook.com',
\* 'm.facebook.com'), in the hook and in get's redirect fallback
MobileUrl(url) ==
  Replace(Replace(url, HUrl.www_host, HUrl.m_host), HUrl.host, HUrl.m_host)

\* What the token patterns of _extract_facebook_tokens find in a body ("" when
\* a pattern does not match): "fb_dtsg":"..", name="fb_dtsg" value="..",
\* name="lsd" value="..", "LSD",[],{"token":"..", and the two script patterns
NoTokens ==
  [dtsg_json |-> "", dtsg_attr |-> "", lsd_attr |-> "", lsd_json |-> "",
   dtsg_js |-> "", lsd_js |-> ""]

\* A response as the session reads it: status_code, headers['location']
\* (<<>> when absent), whether Content-Type is text/html, and the body
Resp(status, location, html, body) ==
  [status |-> status, location |-> location, html |-> html, body |-> body]

\* The responses the site sends.  The bodies: no pattern matching, or one of
\* them, with the token "A"; the first pattern also with another token, "B"
Responses ==
  LET Bodies == {NoTokens, [NoTokens EXCEPT !.dtsg_json = "B"]}
                  \cup {[NoTokens EXCEPT ![p] = "A"] : p \in DOMAIN NoTokens}
  IN
  {Resp(200, <<>>, TRUE, b) : b \in Bodies}
    \cup {Resp(200, <<>>, FALSE, [NoTokens EXCEPT !.dtsg_json = "B"]),
          Resp(404, <<>>, TRUE, NoTokens),
          Resp(302, <<>>, TRUE, NoTokens)}
    \cup {Resp(302, l, TRUE, NoTokens) :
            l \in {HUrl.loc_app, HUrl.loc_app_bare, HUrl.loc_www, HUrl.loc_nonwww,
                   HUrl.loc_checkpoint, HUrl.loc_plain}}

\* response.is_redirect
IsRedirect(r) == r.location # <<>> /\ r.status \in {301, 302, 303, 307, 308}

\* _handle_fb_redirects (session.py:102-177): the fetch the hook makes for
\* response r, by "none" when it makes none
HookTarget(r) ==
  LET l == r.location
      none == [by |-> "none", url |-> <<>>]
  IN IF ~IsRedirect(r) THEN none
     ELSE IF StartsWith(l, HUrl.app_scheme)
     THEN IF UriParam(l) # <<>> THEN [by |-> "hook_app", url |-> Unquote(UriParam(l))]
          ELSE none
     ELSE IF StartsWith(l, HUrl.nonwww_prefix) \/ StartsWith(l, HUrl.www_prefix)
     THEN IF ~Contains(l, HUrl.m_host) /\ ~Contains(l, HUrl.mobile_dir)
          THEN [by |-> "hook_mobile", url |-> MobileUrl(l)]
          ELSE none
     ELSE IF Contains(l, Lit.checkpoint) THEN [by |-> "hook_checkpoint", url |-> l]
     ELSE none

\* _extract_facebook_tokens (session.py:187-227): the new fb_dtsg and lsd
ExtractTokens(dtsg, l, r) ==
  LET b == r.body
      d1 == IF b.dtsg_json # "" THEN b.dtsg_json ELSE dtsg
      d2 == IF b.dtsg_attr # "" /\ d1 = "" THEN b.dtsg_attr ELSE d1
      l1 == IF b.lsd_attr # "" THEN b.lsd_attr ELSE l
      l2 == IF b.lsd_json # "" /\ l1 = "" THEN b.lsd_json ELSE l1
      d3 == IF d2 = "" /\ b.dtsg_js # "" THEN b.dtsg_js ELSE d2
      l3 == IF l2 = "" /\ b.lsd_js # "" THEN b.lsd_js ELSE l2
  IN IF r.html THEN [fb_dtsg |-> d3, lsd |-> l3] ELSE [fb_dtsg |-> dtsg, lsd |-> l]

\* The `data` argument of post: whether it is a dict, and its 'fb_dtsg' and
\* 'lsd' entries (Absent when the key is not in it)
Absent == "<absent>"
Data(isdict, d, l) == [isdict |-> isdict, fb_dtsg |-> d, lsd |-> l]

\* Variant of the merge that also fills a key the caller left empty
MergeTokensIntoEmpty(data, dtsg, l) ==
  IF ~data.isdict THEN data
  ELSE Data(TRUE,
            IF dtsg # "" /\ data.fb_dtsg \in {Absent, ""} THEN dtsg ELSE data.fb_dtsg,
            IF l # "" /\ data.lsd \in {Absent, ""} THEN l ELSE data.lsd)

\* post (session.py:532-537): the body after the tokens were added
MergeTokens(data, dtsg, l) ==
  IF ~data.isdict THEN data
  ELSE Data(TRUE,
            IF dtsg # "" /\ data.fb_dtsg = Absent THEN dtsg ELSE data.fb_dtsg,
            IF l # "" /\ data.lsd = Absent THEN l ELSE data.lsd)

\* MAX_RETRIES in config.py
MAX_RETRIES == 3
\* self.session.max_redirects = 10 in FacebookSession.__init__
SessionMaxRedirects == 10
\* the max_redirects that get / post are called with
MaxRedirectCap == 1
\* the hook's fetches nest at most this deep: at that depth the site answers
\* with no further redirect the hook acts on
MaxNest == 2

\* what a requests call, or a get / post call, gives its caller: a response,
\* None, or an exception (r is then the redirect that could not be followed)
Gave(kind, r, exc) == [kind |-> kind, r |-> r, exc |-> exc]
NoResp == Resp(0, <<>>, FALSE, NoTokens)

\* self.session.get / self.session.post (requests): what it is made for, the
\* URL its next fetch goes to and who asks for it, whether it follows
\* redirects, the redirects followed, the responses whose hook waits for a
\* fetch of its own, and the result
LibCall(purpose, url, follow) ==
  [purpose |-> purpose, url |-> url, by |-> "call", from |-> <<>>, follow |-> follow,
   hops |-> 0, stack |-> <<>>, res |-> Gave("pending", NoResp, "none")]

\* the arguments of a get / post call (data0: the body as the caller made it)
NoCall ==
  [method |-> "none", url |-> <<>>, cap |-> 0, original |-> 0,
   data |-> Data(FALSE, Absent, Absent), data0 |-> Data(FALSE, Absent, Absent)]

\* Variant with a constant backoff
BackoffConstant(att) == 1

\* (2 ** attempt) + random.uniform(0, 1): the whole seconds of it
Backoff(att) == 2 ^ att

\* FacebookSession.__init__
InitSession ==
  /\ fb_dtsg = ""
  /\ lsd = ""
  /\ max_redirects = SessionMaxRedirects
  /\ hpc = "idle"
  /\ call = NoCall
  /\ http_attempt = 0
  /\ lib = LibCall("none", <<>>, FALSE)
  /\ slept = <<>>
  /\ answer = Gave("pending", NoResp, "none")

-----------------------------------------------------------------------------
(* create_account, try_with_proxy and main: the control between requests *)

\* CONFIG.get("max_proxy_attempts", 3) in main()
MaxProxyAttempts == 3
\* self.max_registration_attempts
MaxRegistrationAttempts == 2

\* Variant of create_account that goes from the mobile strategy to the API one
CreateAccountNextSkipsDesktop(strat, r, j) ==
  IF ~Truthy(r) /\ strat = "mobile" THEN [next |-> "api", value |-> NoResult]
  ELSE IF ~Truthy(r)
       THEN [next |-> "return",
             value |-> IF DOMAIN j # {} THEN PartialInfo ELSE FalseResult]
  ELSE [next |-> "return", value |-> r]

\* Variant of create_account in which a failed mobile strategy ends the call
CreateAccountNextStopsAfterMobile(strat, r, j) ==
  IF ~Truthy(r) /\ strat = "desktop" THEN [next |-> "api", value |-> NoResult]
  ELSE IF ~Truthy(r)
       THEN [next |-> "return",
             value |-> IF DOMAIN j # {} THEN PartialInfo ELSE FalseResult]
  ELSE [next |-> "return", value |-> r]

\* Variant of create_account that runs every strategy whatever the last returned
CreateAccountNextIgnoresResult(strat, r, j) ==
  IF strat = "mobile" THEN [next |-> "desktop", value |-> NoResult]
  ELSE IF strat = "desktop" THEN [next |-> "api", value |-> NoResult]
  ELSE IF ~Truthy(r)
       THEN [next |-> "return",
             value |-> IF DOMAIN j # {} THEN PartialInfo ELSE FalseResult]
  ELSE [next |-> "return", value |-> r]

\* Variant of create_account that returns the partial info after three failed
\* strategies without looking at the jar
CreateAccountNextAlwaysPartial(strat, r, j) ==
  IF ~Truthy(r) /\ strat = "mobile" THEN [next |-> "desktop", value |-> NoResult]
  ELSE IF ~Truthy(r) /\ strat = "desktop" THEN [next |-> "api", value |-> NoResult]
  ELSE IF ~Truthy(r) THEN [next |-> "return", value |-> PartialInfo]
  ELSE [next |-> "return", value |-> r]

\* create_account (registration.py:53-80), once strategy strat returned r:
\* which strategy runs next, or the value create_account returns
CreateAccountNext(strat, r, j) ==
  IF ~Truthy(r) /\ strat = "mobile" THEN [next |-> "desktop", value |-> NoResult]
  ELSE IF ~Truthy(r) /\ strat = "desktop" THEN [next |-> "api", value |-> NoResult]
  ELSE IF ~Truthy(r)
       THEN [next |-> "return",
             value |-> IF DOMAIN j # {} THEN PartialInfo ELSE FalseResult]
  ELSE [next |-> "return", value |-> r]

\* Variant of try_with_proxy that returns whatever create_account returned
TryWithProxyReturnsAnything(exc, r, att, max_attempts) ==
  [evict |-> exc # "none",
   returns |-> exc = "none" \/ att >= max_attempts - 1,
   value |-> IF exc = "none" THEN r ELSE FalseResult,
   sleeps |-> IF exc # "none" /\ att < max_attempts - 1 THEN <<5 + att * 3>> ELSE <<>>]

\* Variant of try_with_proxy that also sleeps after the last attempt
TryWithProxySleepsAfterLast(exc, r, att, max_attempts) ==
  LET good == exc = "none" /\ Truthy(r)
  IN [evict |-> exc # "none",
      returns |-> good \/ att >= max_attempts - 1,
      value |-> IF good THEN r ELSE FalseResult,
      sleeps |-> IF ~good THEN <<5 + att * 3>> ELSE <<>>]

\* try_with_proxy (main.py:38-79), once create_account returned r or raised
\* exc in attempt att: evict the proxy or not, return or go round again,
\* and the delays slept before the next attempt
TryWithProxyAfterCall(exc, r, att, max_attempts) ==
  LET good == exc = "none" /\ Truthy(r)
  IN [evict |-> exc # "none",
      returns |-> good \/ att >= max_attempts - 1,
      value |-> IF good THEN r ELSE FalseResult,
      sleeps |-> IF ~good /\ att < max_attempts - 1 THEN <<5 + att * 3>> ELSE <<>>]

\* The report headers main prints (main.py:124-164)
ReportHeader ==
  [success |-> "Account Creation Successful!",
   partial |-> "Partial Account Created",
   failed |-> "Account Creation Failed",
   error |-> "Error"]

\* result[...] reads of the two branches, in order
SuccessReads ==
  <<"user_id", "first_name", "last_name", "email", "fb_password", "user_id",
    "gender", "birth_date">>
PartialReads ==
  <<"first_name", "last_name", "email", "fb_password", "gender", "birth_date">>

\* a branch prints its header, then reads the keys; a missing key raises
\* KeyError, which main's except Exception reports as "=== Error ==="
Branch(header, reads, r) ==
  IF \A i \in 1..Len(reads) : reads[i] \in r.keys THEN <<header>> ELSE <<header, ReportHeader.error>>

MainReport(r) ==
  IF Truthy(r) /\ r.isdict /\ r.success THEN Branch(ReportHeader.success, SuccessReads, r)
  ELSE IF Truthy(r) /\ r.isdict THEN Branch(ReportHeader.partial, PartialReads, r)
  ELSE <<ReportHeader.failed>>

\* what the classifier saw after a form POST
NoPost ==
  [stage |-> "none", returned |-> FALSE, c_user |-> <<>>, url |-> <<>>, text |-> <<>>,
   login_form |-> FALSE, errors |-> <<>>]
PostSeen(stage, out, j) ==
  [stage |-> stage, returned |-> out.kind = "response",
   c_user |-> IF "c_user" \in DOMAIN j THEN j["c_user"] ELSE <<>>,
   url |-> out.page.url, text |-> out.page.text,
   login_form |-> out.page.login_form, errors |-> out.page.errors]

NoFin == [called |-> FALSE, arg |-> <<>>]

\* except Exception as e: the exception and the function whose try caught it
Caught(exc, within) == [exc |-> exc, within |-> within]
NoCatch == Caught("none", "none")

\* the state before main() runs, the files aside
InitWF ==
  /\ pc = "main_load"
  /\ attempt = 0
  /\ delays = <<>>
  /\ ca_result = NoResult
  /\ ca_exc = "none"
  /\ twp_result = NoResult
  /\ report = <<>>
  /\ cookies = [n \in {} |-> <<>>]
  /\ registration_attempts = 0
  /\ strategy = "none"
  /\ idx = 0
  /\ result = NoResult
  /\ started = <<>>
  /\ returned = <<>>
  /\ reqs = {}
  /\ last_post = NoPost
  /\ fin = NoFin
  /\ transport_failed = FALSE
  /\ caught = NoCatch
  /\ vh_calls = <<>>
  /\ InitSession
  /\ fn = "none"
  /\ fn_arg = <<>>
  /\ fn_ret = <<>>

-----------------------------------------------------------------------------
(* SpecPM: the ProxyManager driven through its public operations *)

Call(op, proxy, ok) == [op |-> op, proxy |-> proxy, ok |-> ok]

InitPM ==
  /\ proxies = <<>>
  /\ working_proxies = <<>>
  /\ current_proxy = NoneProxy
  /\ proxy_file \in {NoFile} \cup {File(l) : l \in SeqsUpTo(ListLines, MaxLines)}
  /\ working_proxies_file \in {NoFile} \cup {File(l) : l \in SeqsUpTo(CacheLines, MaxLines)}
  /\ evicted = {}
  /\ last_call = Call("init", NoneProxy, FALSE)
  /\ InitWF

PM_load_proxies ==
  \E api \in ApiAnswers :
    LET r == LoadProxies(proxies, working_proxies, proxy_file, working_proxies_file, api)
    IN /\ Len(r.proxies) <= MaxPool
       /\ Len(r.working) <= MaxPool
       /\ proxies' = r.proxies
       /\ working_proxies' = r.working
       /\ proxy_file' = r.proxy_file
       /\ last_call' = Call("load_proxies", NoneProxy, r.ok)
       /\ evicted' = {}   \* a load re-admits whatever the files list
       /\ UNCHANGED <<current_proxy, working_proxies_file>>
       /\ UNCHANGED <<wfvars, httpvars, fnvars>>

PM_find_working_proxies ==
  \E order \in Shuffles(proxies), m \in {1, MainMaxToTest},
     passed \in SUBSET (1..Len(proxies)) :
    LET r == FindWorkingProxies(order, m, passed, working_proxies_file)
    IN /\ working_proxies' = r.working
       /\ working_proxies_file' = r.working_file
       /\ last_call' = Call("find_working_proxies", NoneProxy, r.ok)
       /\ UNCHANGED <<proxies, current_proxy, proxy_file, evicted>>
       /\ UNCHANGED <<wfvars, httpvars, fnvars>>

PM_get_proxy ==
  /\ IF GetProxyChoices(proxies, working_proxies) = {}
     THEN /\ last_call' = Call("get_proxy", NoneProxy, FALSE)
          /\ UNCHANGED current_proxy
     ELSE \E p \in GetProxyChoices(proxies, working_proxies) :
            /\ current_proxy' = p
            /\ last_call' = Call("get_proxy", p, TRUE)
  /\ UNCHANGED <<proxies, working_proxies, proxy_file, working_proxies_file, evicted>>
  /\ UNCHANGED <<wfvars, httpvars, fnvars>>

PM_get_next_proxy ==
  /\ LET n == GetNextProxyStep(proxies, working_proxies, current_proxy)
     IN IF n # NoneProxy
        THEN /\ current_proxy' = n
             /\ last_call' = Call("get_next_proxy", n, TRUE)
        ELSE IF GetProxyChoices(proxies, working_proxies) = {}
        THEN /\ last_call' = Call("get_next_proxy", NoneProxy, FALSE)
             /\ UNCHANGED current_proxy
        ELSE \E p \in GetProxyChoices(proxies, working_proxies) :
               /\ current_proxy' = p
               /\ last_call' = Call("get_next_proxy", p, TRUE)
  /\ UNCHANGED <<proxies, working_proxies, proxy_file, working_proxies_file, evicted>>
  /\ UNCHANGED <<wfvars, httpvars, fnvars>>

PM_remove_current_proxy ==
  LET r == RemoveCurrentProxy(proxies, working_proxies, current_proxy, working_proxies_file)
  IN /\ proxies' = r.proxies
     /\ working_proxies' = r.working
     /\ working_proxies_file' = r.working_file
     /\ current_proxy' = NoneProxy
     /\ evicted' = IF current_proxy = NoneProxy THEN evicted
                   ELSE evicted \cup {current_proxy}
     /\ last_call' = Call("remove_current_proxy", current_proxy, r.removed)
     /\ UNCHANGED proxy_file
     /\ UNCHANGED <<wfvars, httpvars, fnvars>>

NextPM ==
  \/ PM_load_proxies
  \/ PM_find_working_proxies
  \/ PM_get_proxy
  \/ PM_get_next_proxy
  \/ PM_remove_current_proxy

SpecPM == InitPM /\ [][NextPM]_vars

-----------------------------------------------------------------------------
(* Spec: one run of main().  One action per request of the workflow, and one
   per step of the control around it *)

\* what a workflow step leaves alone outside the FacebookRegistration
Frame ==
  UNCHANGED <<pmvars, attempt, delays, ca_result, twp_result, report, vh_calls, httpvars, fnvars>>
SameStrategy == UNCHANGED <<registration_attempts, strategy, started>>

\* session.get / session.post from jar j: the cookies the exchange leaves
Issue(step, j, out) ==
  /\ cookies' = ApplyCookies(j, out.cookies)
  /\ reqs' = reqs \cup {step}
  /\ transport_failed' = (transport_failed \/ out.exc \in TransportErrors)

\* the running function goes on to its next request; seen is the POST just
\* classified, NoPost after a GET
GotoAfter(p, seen) ==
  /\ pc' = p
  /\ last_post' = seen
  /\ caught' = NoCatch
  /\ UNCHANGED <<ca_exc, result, fin, returned>>

Goto(p) == GotoAfter(p, NoPost)

\* the same after an except clause inside the function caught c
GotoCaught(p, c) ==
  /\ pc' = p
  /\ last_post' = NoPost
  /\ caught' = c
  /\ UNCHANGED <<ca_exc, result, fin, returned>>

\* the running strategy returns r to create_account; seen is the POST just
\* classified, NoPost after a GET
ReturnsCaught(r, f, seen, c) ==
  /\ result' = r
  /\ fin' = f
  /\ returned' = Append(returned, Outcome(r))
  /\ last_post' = seen
  /\ caught' = c
  /\ pc' = "ca_next"
  /\ UNCHANGED ca_exc

StrategyReturns(r, f, seen) == ReturnsCaught(r, f, seen, NoCatch)

\* exc is raised inside the try blocks of chain: the innermost clause that
\* catches it decides what the strategy returns; uncaught, it leaves
\* create_account
Unwind(chain, exc, seen) ==
  LET hs == Handlers(chain, exc)
      hits == {i \in 1..Len(hs) : hs[i].caught}
  IN IF hits = {}
     THEN /\ ca_exc' = exc
          /\ pc' = "twp_result"
          /\ last_post' = seen
          /\ caught' = NoCatch
          /\ UNCHANGED <<result, fin, returned>>
     ELSE ReturnsCaught(hs[CHOOSE i \in hits : \A k \in hits : i <= k].result, NoFin, seen,
                        Caught(exc, chain))

StepOf(do) ==
  CASE do = "login" -> "l_get"
    [] do = "post" -> "l_post"
    [] do = "homepage" -> "h_home"
    [] do = "profile" -> "h_profile"

\* act on a classifier's decision
Decide(d, chain, seen) ==
  IF d.do = "return"
  THEN StrategyReturns(d.result, [called |-> d.finalized, arg |-> d.arg], seen)
  ELSE IF d.do = "raise" THEN Unwind(chain, d.exc, seen)
  ELSE GotoAfter(StepOf(d.do), seen)

\* _enhanced_warmup_session: the idx-th of its five GETs (registration.py:82-127)
Do_warmup ==
  /\ pc = "warmup"
  /\ \E out \in (IF idx = 1 THEN AnonymousAnyOutcomes ELSE AnonymousOutcomes) :
       /\ reqs' = reqs \cup {"warmup"}
       /\ IF out.kind = "raise"
          THEN /\ cookies' = ApplyCookies(cookies, out.cookies)
               /\ idx' = 0
               /\ IF WarmupExcept(out.exc).caught
                  THEN \* the rest of the warm-up is skipped
                       GotoCaught("m_home", Caught(out.exc, "warmup"))
                  ELSE \* the exception leaves create_account
                       /\ ca_exc' = out.exc
                       /\ pc' = "twp_result"
                       /\ last_post' = NoPost
                       /\ caught' = NoCatch
                       /\ UNCHANGED <<result, fin, returned>>
          ELSE IF idx < 5
          THEN /\ cookies' = ApplyCookies(cookies, out.cookies)
               /\ idx' = idx + 1
               /\ Goto("warmup")
          ELSE /\ cookies' = WarmupCookies(ApplyCookies(cookies, out.cookies))
               /\ idx' = 0
               /\ Goto("m_home")
  /\ UNCHANGED transport_failed
  /\ SameStrategy
  /\ Frame

\* _mobile_registration: GET FB_MOBILE_HOME (registration.py:129-141)
Do_mobile_landing ==
  /\ pc = "m_home"
  /\ registration_attempts' = registration_attempts + 1
  /\ strategy' = "mobile"
  /\ started' = Append(started, "mobile")
  /\ \E out \in AnonymousOutcomes :
       /\ Issue("mobile", cookies, out)
       /\ IF out.kind = "raise" THEN idx' = 0 /\ Unwind("strategy", out.exc, NoPost)
          ELSE IF out.page.status # 200 THEN idx' = 0 /\ StrategyReturns(FalseResult, NoFin, NoPost)
          ELSE idx' = 1 /\ Goto("m_signup")
  /\ Frame

\* _mobile_registration: GET the idx-th signup URL (registration.py:146-190)
Do_mobile_signup ==
  /\ pc = "m_signup"
  /\ \E out \in AnonymousOutcomes :
       /\ Issue("mobile", cookies, out)
       /\ IF out.kind = "response" /\ out.page.status = 200 /\ out.page.reg_form
          THEN idx' = 0 /\ Goto("m_post")
          ELSE LET c == IF out.kind = "raise" THEN Caught(out.exc, "signup") ELSE NoCatch
               IN IF idx < 4 THEN idx' = idx + 1 /\ GotoCaught("m_signup", c)
                  ELSE idx' = 0 /\ ReturnsCaught(FalseResult, NoFin, NoPost, c)
  /\ SameStrategy
  /\ Frame

\* _mobile_registration: POST the form and classify (registration.py:192-309)
Do_mobile_post ==
  /\ pc = "m_post"
  /\ \E out \in SessionAnyOutcomes :
       /\ Issue("mobile", cookies, out)
       /\ IF out.kind = "raise" THEN Unwind("strategy", out.exc, PostSeen("m_post", out, ApplyCookies(cookies, out.cookies)))
          ELSE Decide(MobileClassify(ApplyCookies(cookies, out.cookies), out,
                                     registration_attempts, MaxRegistrationAttempts),
                      "strategy", PostSeen("m_post", out, ApplyCookies(cookies, out.cookies)))
  /\ UNCHANGED idx
  /\ SameStrategy
  /\ Frame

\* _attempt_login_with_credentials: GET the login page (registration.py:942-983)
Do_login_page ==
  /\ pc = "l_get"
  /\ \E out \in SessionOutcomes :
       /\ Issue("login", cookies, out)
       /\ IF out.kind = "raise" THEN Unwind("login", out.exc, NoPost)
          ELSE IF out.page.status # 200 THEN Goto("l_get_alt")
          ELSE Decide(LoginPageClassify(ApplyCookies(cookies, out.cookies), out), "login", NoPost)
  /\ UNCHANGED idx
  /\ SameStrategy
  /\ Frame

\* _attempt_login_with_credentials: GET login.php (registration.py:959-965)
Do_login_page_alt ==
  /\ pc = "l_get_alt"
  /\ \E out \in SessionOutcomes :
       /\ Issue("login", cookies, out)
       /\ IF out.kind = "raise" THEN Unwind("login", out.exc, NoPost)
          ELSE IF out.page.status # 200 THEN StrategyReturns(FalseResult, NoFin, NoPost)
          ELSE Decide(LoginPageClassify(ApplyCookies(cookies, out.cookies), out), "login", NoPost)
  /\ UNCHANGED idx
  /\ SameStrategy
  /\ Frame

\* _attempt_login_with_credentials: POST the login form (registration.py:1064-1114)
Do_login_post ==
  /\ pc = "l_post"
  /\ \E out \in SessionAnyOutcomes :
       /\ Issue("login", cookies, out)
       /\ IF out.kind = "raise" THEN Unwind("login", out.exc, PostSeen("l_post", out, ApplyCookies(cookies, out.cookies)))
          ELSE Decide(LoginClassify(ApplyCookies(cookies, out.cookies), out), "login", PostSeen("l_post", out, ApplyCookies(cookies, out.cookies)))
  /\ UNCHANGED idx
  /\ SameStrategy
  /\ Frame

\* _visit_homepage_for_cookies: GET the home page (registration.py:1116-1158)
Do_homepage ==
  /\ pc = "h_home"
  /\ \E out \in SessionOutcomes :
       /\ Issue("login", cookies, out)
       /\ IF out.kind = "raise" THEN Unwind("homepage", out.exc, NoPost)
          ELSE Decide(HomepageClassify(ApplyCookies(cookies, out.cookies), out), "homepage", NoPost)
  /\ UNCHANGED idx
  /\ SameStrategy
  /\ Frame

\* _visit_homepage_for_cookies: GET profile.php (registration.py:1160-1192)
Do_profile ==
  /\ pc = "h_profile"
  /\ \E out \in SessionOutcomes :
       /\ Issue("login", cookies, out)
       /\ IF out.kind = "raise" THEN Unwind("homepage", out.exc, NoPost)
          ELSE Decide(ProfileClassify(ApplyCookies(cookies, out.cookies), out), "homepage", NoPost)
  /\ UNCHANGED idx
  /\ SameStrategy
  /\ Frame

\* _desktop_registration: clear the cookies, GET google (registration.py:526-543)
Do_desktop_google ==
  /\ pc = "d_google"
  /\ registration_attempts' = registration_attempts + 1
  /\ strategy' = "desktop"
  /\ started' = Append(started, "desktop")
  /\ \E out \in AnonymousAnyOutcomes :
       /\ Issue("desktop", ClearCookies(cookies, TRUE), out)
       /\ IF out.kind = "raise" THEN Unwind("strategy", out.exc, NoPost) ELSE Goto("d_fb")
  /\ UNCHANGED idx
  /\ Frame

\* _desktop_registration: GET www.facebook.com (registration.py:545-546)
Do_desktop_home ==
  /\ pc = "d_fb"
  /\ \E out \in AnonymousOutcomes :
       /\ Issue("desktop", cookies, out)
       /\ IF out.kind = "raise" THEN Unwind("strategy", out.exc, NoPost) ELSE Goto("d_signup")
  /\ UNCHANGED idx
  /\ SameStrategy
  /\ Frame

\* _desktop_registration: GET r.php and look for the form (registration.py:548-569)
Do_desktop_signup ==
  /\ pc = "d_signup"
  /\ \E out \in AnonymousOutcomes :
       /\ Issue("desktop", cookies, out)
       /\ IF out.kind = "raise" THEN Unwind("strategy", out.exc, NoPost)
          ELSE IF out.page.status # 200 \/ ~out.page.reg_form
          THEN StrategyReturns(FalseResult, NoFin, NoPost)
          ELSE Goto("d_post")
  /\ UNCHANGED idx
  /\ SameStrategy
  /\ Frame

\* _desktop_registration: POST the form and classify (registration.py:604-664)
Do_desktop_post ==
  /\ pc = "d_post"
  /\ \E out \in SessionAnyOutcomes :
       /\ Issue("desktop", cookies, out)
       /\ IF out.kind = "raise" THEN Unwind("strategy", out.exc, PostSeen("d_post", out, ApplyCookies(cookies, out.cookies)))
          ELSE Decide(DesktopClassify(ApplyCookies(cookies, out.cookies), out), "strategy", PostSeen("d_post", out, ApplyCookies(cookies, out.cookies)))
  /\ UNCHANGED idx
  /\ SameStrategy
  /\ Frame

\* _api_registration: clear the cookies, GET the tokens (registration.py:329-343)
Do_api_token ==
  /\ pc = "a_token"
  /\ strategy' = "api"
  /\ started' = Append(started, "api")
  /\ \E out \in AnonymousOutcomes :
       /\ Issue("api", ClearCookies(cookies, TRUE), out)
       /\ IF out.kind = "raise" THEN Unwind("strategy", out.exc, NoPost) ELSE Goto("a_post")
  /\ UNCHANGED <<idx, registration_attempts>>
  /\ Frame

\* _api_registration: POST reg/submit and classify (registration.py:414-452)
Do_api_post ==
  /\ pc = "a_post"
  /\ \E out \in SessionOutcomes :
       /\ Issue("api", cookies, out)
       /\ IF out.kind = "raise" THEN Unwind("strategy", out.exc, PostSeen("a_post", out, ApplyCookies(cookies, out.cookies)))
          ELSE Decide(ApiClassify(ApplyCookies(cookies, out.cookies), out), "strategy", PostSeen("a_post", out, ApplyCookies(cookies, out.cookies)))
  /\ UNCHANGED idx
  /\ SameStrategy
  /\ Frame

\* create_account between and after the strategies (registration.py:56-80)
CA_next ==
  /\ pc = "ca_next"
  /\ LET n == CreateAccountNext(strategy, result, cookies)
     IN IF n.next = "desktop" THEN pc' = "d_google" /\ UNCHANGED ca_result
        ELSE IF n.next = "api" THEN pc' = "a_token" /\ UNCHANGED ca_result
        ELSE pc' = "twp_result" /\ ca_result' = n.value
  /\ UNCHANGED <<pmvars, attempt, delays, ca_exc, twp_result, report, regvars, histvars, httpvars, fnvars>>

\* main: proxy_manager.load_proxies() (main.py:95-98)
Main_load_proxies ==
  /\ pc = "main_load"
  /\ \E api \in ApiAnswers :
       LET r == LoadProxies(proxies, working_proxies, proxy_file, working_proxies_file, api)
       IN /\ proxies' = r.proxies
          /\ working_proxies' = r.working
          /\ proxy_file' = r.proxy_file
          /\ last_call' = Call("load_proxies", NoneProxy, r.ok)
          /\ pc' = IF r.ok THEN "main_test" ELSE "done"
  /\ UNCHANGED <<current_proxy, working_proxies_file, evicted>>
  /\ UNCHANGED <<attempt, delays, ca_result, ca_exc, twp_result, report, regvars, histvars, httpvars, fnvars>>

\* main: proxy_manager.find_working_proxies(max_to_test=5) (main.py:101-106)
Main_find_working_proxies ==
  /\ pc = "main_test"
  /\ \E order \in Shuffles(proxies), passed \in SUBSET (1..Len(proxies)) :
       LET r == FindWorkingProxies(order, MainMaxToTest, passed, working_proxies_file)
       IN /\ working_proxies' = r.working
          /\ working_proxies_file' = r.working_file
          /\ last_call' = Call("find_working_proxies", NoneProxy, r.ok)
  /\ pc' = "main_email"
  /\ UNCHANGED <<proxies, current_proxy, proxy_file, evicted>>
  /\ UNCHANGED <<attempt, delays, ca_result, ca_exc, twp_result, report, regvars, histvars, httpvars, fnvars>>

\* main: get_user_email() (main.py:113-117)
Main_get_user_email ==
  /\ pc = "main_email"
  /\ \E email_ok \in BOOLEAN : pc' = IF email_ok THEN "twp_get" ELSE "done"
  /\ UNCHANGED <<pmvars, attempt, delays, ca_result, ca_exc, twp_result, report,
                 regvars, histvars, httpvars, fnvars>>

\* try_with_proxy: get_proxy() and a new FacebookRegistration (main.py:29-45)
TWP_get_proxy ==
  /\ pc = "twp_get"
  /\ IF GetProxyChoices(proxies, working_proxies) = {}
     THEN /\ last_call' = Call("get_proxy", NoneProxy, FALSE)
          /\ twp_result' = FalseResult
          /\ pc' = "main_report"
          /\ UNCHANGED <<current_proxy, regvars, histvars>>
     ELSE /\ \E p \in GetProxyChoices(proxies, working_proxies) :
               /\ current_proxy' = p
               /\ last_call' = Call("get_proxy", p, TRUE)
          /\ pc' = "warmup"
          /\ cookies' = SeededJar
          /\ registration_attempts' = 0
          /\ strategy' = "none"
          /\ idx' = 1
          /\ result' = NoResult
          /\ started' = <<>>
          /\ returned' = <<>>
          /\ reqs' = {}
          /\ last_post' = NoPost
          /\ fin' = NoFin
          /\ transport_failed' = FALSE
          /\ caught' = NoCatch
          /\ UNCHANGED <<twp_result, vh_calls>>
  /\ UNCHANGED <<proxies, working_proxies, proxy_file, working_proxies_file, evicted>>
  /\ UNCHANGED <<attempt, delays, ca_result, ca_exc, report, httpvars, fnvars>>

\* try_with_proxy: after create_account returned or raised (main.py:48-79)
TWP_result ==
  /\ pc = "twp_result"
  /\ LET t == TryWithProxyAfterCall(ca_exc, ca_result, attempt, MaxProxyAttempts)
         r == RemoveCurrentProxy(proxies, working_proxies, current_proxy, working_proxies_file)
     IN /\ IF t.evict
           THEN /\ proxies' = r.proxies
                /\ working_proxies' = r.working
                /\ working_proxies_file' = r.working_file
                /\ current_proxy' = NoneProxy
                /\ evicted' = evicted \cup {current_proxy}
                /\ last_call' = Call("remove_current_proxy", current_proxy, r.removed)
                /\ UNCHANGED proxy_file
           ELSE UNCHANGED pmvars
        /\ delays' = delays \o t.sleeps
        /\ IF t.returns
           THEN /\ twp_result' = t.value
                /\ pc' = "main_report"
                /\ UNCHANGED attempt
           ELSE /\ attempt' = attempt + 1
                /\ pc' = "twp_get"
                /\ UNCHANGED twp_result
  /\ ca_exc' = "none"
  /\ UNCHANGED <<ca_result, report, regvars, histvars, httpvars, fnvars>>

\* main: report the result (main.py:123-164)
Main_report ==
  /\ pc = "main_report"
  /\ report' = MainReport(twp_result)
  /\ pc' = "done"
  /\ UNCHANGED <<pmvars, attempt, delays, ca_result, ca_exc, twp_result, regvars, histvars, httpvars, fnvars>>

\* the files main() can find at start
MainFiles == {NoFile, File(<<Line("ip_port", 1)>>)}

Init ==
  /\ proxies = <<>>
  /\ working_proxies = <<>>
  /\ current_proxy = NoneProxy
  /\ proxy_file \in MainFiles
  /\ working_proxies_file \in MainFiles
  /\ evicted = {}
  /\ last_call = Call("init", NoneProxy, FALSE)
  /\ InitWF

Next ==
  \/ Main_load_proxies
  \/ Main_find_working_proxies
  \/ Main_get_user_email
  \/ TWP_get_proxy
  \/ Do_warmup
  \/ Do_mobile_landing
  \/ Do_mobile_signup
  \/ Do_mobile_post
  \/ Do_login_page
  \/ Do_login_page_alt
  \/ Do_login_post
  \/ Do_homepage
  \/ Do_profile
  \/ Do_desktop_google
  \/ Do_desktop_home
  \/ Do_desktop_signup
  \/ Do_desktop_post
  \/ Do_api_token
  \/ Do_api_post
  \/ CA_next
  \/ TWP_result
  \/ Main_report

Spec == Init /\ [][Next]_vars

\* main() is one sequential process: whenever it has a next statement, it
\* executes it (every request returns or raises within its timeout)
FairSpec == Spec /\ WF_vars(Next)

-----------------------------------------------------------------------------
(* FacebookSession.get and post: the calls of one session *)

\* the posts made: to the registration URL with a body that is not a dict or
\* a dict with or without the token keys, to the login URL with no dict
PostCalls ==
  {[url |-> HUrl.reg, data |-> d] :
     d \in {Data(FALSE, Absent, Absent), Data(TRUE, Absent, Absent),
            Data(TRUE, "", Absent), Data(TRUE, "C", Absent), Data(TRUE, Absent, "C")}}
    \cup {[url |-> HUrl.login, data |-> Data(FALSE, Absent, Absent)]}

\* get (session.py:302-327): up to the retry loop
HTTP_get ==
  /\ hpc = "idle"
  /\ \E url \in {HUrl.google, HUrl.reg} :
       call' = [method |-> "get", url |-> url, cap |-> MaxRedirectCap,
                original |-> max_redirects, data |-> Data(FALSE, Absent, Absent), data0 |-> Data(FALSE, Absent, Absent)]
  /\ max_redirects' = MaxRedirectCap
  /\ http_attempt' = 0
  /\ hpc' = "try"
  /\ slept' = <<>>
  /\ answer' = Gave("pending", NoResp, "none")
  /\ UNCHANGED <<fb_dtsg, lsd, lib>>
  /\ UNCHANGED <<pmvars, wfvars, fnvars>>

\* post (session.py:503-546): up to the retry loop, the tokens added to the body
HTTP_post ==
  /\ hpc = "idle"
  /\ \E c \in PostCalls :
       call' = [method |-> "post", url |-> c.url, cap |-> MaxRedirectCap,
                original |-> max_redirects,
                data |-> MergeTokens(c.data, fb_dtsg, lsd), data0 |-> c.data]
  /\ max_redirects' = MaxRedirectCap
  /\ http_attempt' = 0
  /\ hpc' = "try"
  /\ slept' = <<>>
  /\ answer' = Gave("pending", NoResp, "none")
  /\ UNCHANGED <<fb_dtsg, lsd, lib>>
  /\ UNCHANGED <<pmvars, wfvars, fnvars>>

\* one pass of `for attempt in range(MAX_RETRIES)`: the jitter sleep, then
\* self.session.get / self.session.post is entered
HTTP_attempt ==
  /\ hpc = "try"
  /\ slept' = Append(slept, [what |-> "jitter", base |-> 0])
  /\ lib' = LibCall("primary", call.url, TRUE)
  /\ hpc' = "lib"
  /\ UNCHANGED <<fb_dtsg, lsd, max_redirects, call, http_attempt, answer>>
  /\ UNCHANGED <<pmvars, wfvars, fnvars>>

\* requests.Session.send for the next URL of the library call: the fetch, the
\* response hook _handle_fb_redirects (which fetches through the same session,
\* so its responses pass the hook too), and resolve_redirects on what the
\* hook gave back
HTTP_wire ==
  /\ hpc = "lib"
  /\ LET Done(res) ==
           /\ lib' = [lib EXCEPT !.res = res, !.stack = <<>>]
           /\ hpc' = "result"
         Extract(r) ==
           LET t == ExtractTokens(fb_dtsg, lsd, r)
           IN fb_dtsg' = t.fb_dtsg /\ lsd' = t.lsd
         \* every waiting hook returns r; the outermost send then looks at it
         Settle(r) ==
           IF lib.follow /\ IsRedirect(r)
           THEN IF lib.hops >= max_redirects
                THEN Done(Gave("raise", r, "TooManyRedirects"))
                ELSE IF StartsWith(r.location, HUrl.app_scheme)
                THEN Done(Gave("raise", r, "InvalidSchema"))
                ELSE /\ lib' = [lib EXCEPT !.stack = <<>>, !.url = r.location,
                                            !.by = "follow", !.from = r.location,
                                            !.hops = @ + 1]
                     /\ hpc' = "lib"
           ELSE Done(Gave("response", r, "none"))
     IN IF StartsWith(lib.url, HUrl.app_scheme)
        THEN \* no connection adapter for the scheme: nothing is fetched
             /\ Done(Gave("raise", NoResp, "InvalidSchema"))
             /\ UNCHANGED <<fb_dtsg, lsd>>
        ELSE \* lib.url is fetched
             \/ \E exc \in {"ConnectionError", "Timeout"} :
                  IF lib.stack = <<>>
                  THEN Done(Gave("raise", NoResp, exc)) /\ UNCHANGED <<fb_dtsg, lsd>>
                  ELSE \* the hook's except: it goes on with its own response
                       LET r0 == lib.stack[Len(lib.stack)]
                       IN Extract(r0) /\ Settle(r0)
             \/ \E r \in Responses :
                  LET t == HookTarget(r)
                  IN /\ Len(lib.stack) >= MaxNest => t.by = "none"
                     /\ IF t.by # "none"
                        THEN /\ lib' = [lib EXCEPT !.stack = Append(@, r), !.url = t.url,
                                                    !.by = t.by, !.from = r.location]
                             /\ hpc' = "lib"
                             /\ UNCHANGED <<fb_dtsg, lsd>>
                        ELSE Extract(r) /\ Settle(r)
  /\ UNCHANGED <<max_redirects, call, http_attempt, slept, answer>>
  /\ UNCHANGED <<pmvars, wfvars, fnvars>>

\* a get / post that forgets `self.session.max_redirects = original_max_redirects`
RestoreMaxRedirectsForgotten(original, current, restore) == current

\* `self.session.max_redirects = original_max_redirects` on the exit paths
\* that have it; the other steps leave the cap of the call in place
RestoreMaxRedirects(original, current, restore) ==
  IF restore THEN original ELSE current

\* get (session.py:340-473) and post (session.py:560-655) after the library
\* call: the success path and the except clauses of the retry loop
HTTP_result ==
  /\ hpc = "result"
  /\ LET res == lib.res
         isget == call.method = "get"
         Restored(yes) == RestoreMaxRedirects(call.original, max_redirects, yes)
         Gives(a, restore, sl) ==
           /\ answer' = a
           /\ hpc' = "idle"
           /\ lib' = LibCall("none", <<>>, FALSE)
           /\ max_redirects' = Restored(restore)
           /\ slept' = slept \o sl
           /\ UNCHANGED http_attempt
         Start(purpose, url, follow, restore) ==
           /\ lib' = LibCall(purpose, url, follow)
           /\ hpc' = "lib"
           /\ max_redirects' = Restored(restore)
           /\ UNCHANGED <<answer, http_attempt, slept>>
         NextAttempt(sl) ==
           IF http_attempt + 1 < MAX_RETRIES
           THEN /\ http_attempt' = http_attempt + 1
                /\ hpc' = "try"
                /\ lib' = LibCall("none", <<>>, FALSE)
                /\ slept' = slept \o sl
                /\ UNCHANGED <<answer, max_redirects>>
           ELSE \* the loop ends: "Should not reach here"
                Gives(Gave("None", NoResp, "none"), TRUE, sl)
         Response == Gave("response", res.r, "none")
         Raise(exc) == Gave("raise", NoResp, exc)
         Primary ==
           IF res.kind = "response"
           THEN LET t == ExtractTokens(fb_dtsg, lsd, res.r)
                IN /\ fb_dtsg' = t.fb_dtsg
                   /\ lsd' = t.lsd
                   /\ Gives(Response, TRUE, <<[what |-> "page_load", base |-> 0]>>)
           ELSE /\ UNCHANGED <<fb_dtsg, lsd>>
                /\ IF res.exc = "TooManyRedirects"
                   THEN IF Contains(call.url, HUrl.host)
                        THEN Start("alt",
                                   IF isget THEN MobileUrl(call.url)
                                   ELSE IF Contains(call.url, HUrl.reg_word) THEN HUrl.post_reg
                                   ELSE IF Contains(call.url, HUrl.login_word)
                                   THEN HUrl.post_login
                                   ELSE call.url,
                                   FALSE, FALSE)
                        ELSE NextAttempt(<<>>)
                   ELSE IF res.exc = "InvalidSchema"
                   THEN IF isget
                        THEN IF UriParam(res.r.location) # <<>>
                             THEN Start("bypass", HUrl.submit, TRUE, FALSE)
                             ELSE Start("fallback", HUrl.r_php, TRUE, FALSE)
                        ELSE Start("fallback", HUrl.submit, TRUE, FALSE)
                   ELSE IF http_attempt = MAX_RETRIES - 1
                        THEN Gives(Raise(res.exc), TRUE, <<>>)
                        ELSE NextAttempt(<<[what |-> "backoff", base |-> Backoff(http_attempt)]>>)
         Alt ==
           IF res.kind = "response"
           THEN IF isget /\ res.r.status >= 300 /\ res.r.status < 400
                         /\ res.r.location # <<>>
                THEN Start("alt_final", res.r.location, FALSE, TRUE)
                ELSE Gives(Response, TRUE, <<>>)
           ELSE Gives(Raise("TooManyRedirects"), TRUE, <<>>)
         AltFinal ==
           IF res.kind = "response" THEN Gives(Response, FALSE, <<>>)
           ELSE Gives(Raise("TooManyRedirects"), TRUE, <<>>)
         Bypass ==
           IF res.kind = "response" THEN Gives(Response, TRUE, <<>>)
           ELSE Start("fallback", HUrl.r_php, TRUE, FALSE)
         Fallback ==
           IF res.kind = "response" THEN Gives(Response, TRUE, <<>>)
           ELSE Gives(Raise("InvalidSchema"), TRUE, <<>>)
     IN IF lib.purpose = "primary" THEN Primary
        ELSE /\ UNCHANGED <<fb_dtsg, lsd>>
             /\ IF lib.purpose = "alt" THEN Alt
                ELSE IF lib.purpose = "alt_final" THEN AltFinal
                ELSE IF lib.purpose = "bypass" THEN Bypass
                ELSE Fallback
  /\ UNCHANGED call
  /\ UNCHANGED <<pmvars, wfvars, fnvars>>

NextHTTP == HTTP_get \/ HTTP_post \/ HTTP_attempt \/ HTTP_wire \/ HTTP_result

\* One session, before main() has done anything, called any number of times
InitHTTP == Init /\ proxy_file = NoFile /\ working_proxies_file = NoFile

SpecHTTP == InitHTTP /\ [][NextHTTP]_vars

-----------------------------------------------------------------------------
(* FacebookRegistration: finding the registration form and filling it *)

\* The attribute values, field names, patterns and values the form code names,
\* and those of the pages it is called on
FormText ==
  [ mobile_reg_form |->  \* "mobile-reg-form"
        <<"m", "o", "b", "i", "l", "e", "-", "r", "e", "g", "-", "f",
        "o", "r", "m">>,
    signup_form |->  \* "signup-form"
        <<"s", "i", "g", "n", "u", "p", "-", "f", "o", "r", "m">>,
    reg |->  \* "reg"
        <<"r", "e", "g">>,
    registration_form |->  \* "registration_form"
        <<"r", "e", "g", "i", "s", "t", "r", "a", "t", "i", "o", "n",
        "_", "f", "o", "r", "m">>,
    reg_submit |->  \* "/reg/submit/"
        <<"/", "r", "e", "g", "/", "s", "u", "b", "m", "i", "t", "/">>,
    post |->  \* "post"
        <<"p", "o", "s", "t">>,
    signup |->  \* "signup"
        <<"s", "i", "g", "n", "u", "p">>,
    register |->  \* "register"
        <<"r", "e", "g", "i", "s", "t", "e", "r">>,
    firstname |->  \* "firstname"
        <<"f", "i", "r", "s", "t", "n", "a", "m", "e">>,
    lastname |->  \* "lastname"
        <<"l", "a", "s", "t", "n", "a", "m", "e">>,
    reg_email |->  \* "reg_email"
        <<"r", "e", "g", "_", "e", "m", "a", "i", "l">>,
    password |->  \* "password"
        <<"p", "a", "s", "s", "w", "o", "r", "d">>,
    reg_passwd |->  \* "reg_passwd"
        <<"r", "e", "g", "_", "p", "a", "s", "s", "w", "d">>,
    birthday |->  \* "birthday"
        <<"b", "i", "r", "t", "h", "d", "a", "y">>,
    gender |->  \* "gender"
        <<"g", "e", "n", "d", "e", "r">>,
    sex |->  \* "sex"
        <<"s", "e", "x">>,
    name_first |->  \* "name_first"
        <<"n", "a", "m", "e", "_", "f", "i", "r", "s", "t">>,
    name_last |->  \* "name_last"
        <<"n", "a", "m", "e", "_", "l", "a", "s", "t">>,
    sign_up |->  \* "sign up"
        <<"s", "i", "g", "n", " ", "u", "p">>,
    join |->  \* "join"
        <<"j", "o", "i", "n">>,
    create |->  \* "create"
        <<"c", "r", "e", "a", "t", "e">>,
    submit |->  \* "submit"
        <<"s", "u", "b", "m", "i", "t">>,
    create_account |->  \* "create account"
        <<"c", "r", "e", "a", "t", "e", " ", "a", "c", "c", "o", "u",
        "n", "t">>,
    join_facebook |->  \* "join facebook"
        <<"j", "o", "i", "n", " ", "f", "a", "c", "e", "b", "o", "o",
        "k">>,
    registration |->  \* "registration"
        <<"r", "e", "g", "i", "s", "t", "r", "a", "t", "i", "o", "n">>,
    first_name |->  \* "first_name"
        <<"f", "i", "r", "s", "t", "_", "n", "a", "m", "e">>,
    last_name |->  \* "last_name"
        <<"l", "a", "s", "t", "_", "n", "a", "m", "e">>,
    full_name |->  \* "full_name"
        <<"f", "u", "l", "l", "_", "n", "a", "m", "e">>,
    firstName_c |->  \* "firstName"
        <<"f", "i", "r", "s", "t", "N", "a", "m", "e">>,
    lastName_c |->  \* "lastName"
        <<"l", "a", "s", "t", "N", "a", "m", "e">>,
    contactpoint |->  \* "contactpoint"
        <<"c", "o", "n", "t", "a", "c", "t", "p", "o", "i", "n", "t">>,
    email_address |->  \* "email_address"
        <<"e", "m", "a", "i", "l", "_", "a", "d", "d", "r", "e", "s",
        "s">>,
    emailaddress |->  \* "emailaddress"
        <<"e", "m", "a", "i", "l", "a", "d", "d", "r", "e", "s", "s">>,
    verification |->  \* "verification"
        <<"v", "e", "r", "i", "f", "i", "c", "a", "t", "i", "o", "n">>,
    repeat |->  \* "repeat"
        <<"r", "e", "p", "e", "a", "t">>,
    pass |->  \* "pass"
        <<"p", "a", "s", "s">>,
    passwd |->  \* "passwd"
        <<"p", "a", "s", "s", "w", "d">>,
    terms |->  \* "terms"
        <<"t", "e", "r", "m", "s">>,
    privacy |->  \* "privacy"
        <<"p", "r", "i", "v", "a", "c", "y">>,
    tos |->  \* "tos"
        <<"t", "o", "s">>,
    policy |->  \* "policy"
        <<"p", "o", "l", "i", "c", "y">>,
    agree |->  \* "agree"
        <<"a", "g", "r", "e", "e">>,
    birthday_day |->  \* "birthday_day"
        <<"b", "i", "r", "t", "h", "d", "a", "y", "_", "d", "a", "y">>,
    birthday_day_b |->  \* "birthday[day]"
        <<"b", "i", "r", "t", "h", "d", "a", "y", "[", "d", "a", "y",
        "]">>,
    birthday_month |->  \* "birthday_month"
        <<"b", "i", "r", "t", "h", "d", "a", "y", "_", "m", "o", "n",
        "t", "h">>,
    birthday_month_b |->  \* "birthday[month]"
        <<"b", "i", "r", "t", "h", "d", "a", "y", "[", "m", "o", "n",
        "t", "h", "]">>,
    birthday_year |->  \* "birthday_year"
        <<"b", "i", "r", "t", "h", "d", "a", "y", "_", "y", "e", "a",
        "r">>,
    birthday_year_b |->  \* "birthday[year]"
        <<"b", "i", "r", "t", "h", "d", "a", "y", "[", "y", "e", "a",
        "r", "]">>,
    day |->  \* "day"
        <<"d", "a", "y">>,
    month |->  \* "month"
        <<"m", "o", "n", "t", "h">>,
    year |->  \* "year"
        <<"y", "e", "a", "r">>,
    birthday_age |->  \* "birthday_age"
        <<"b", "i", "r", "t", "h", "d", "a", "y", "_", "a", "g", "e">>,
    websubmit |->  \* "websubmit"
        <<"w", "e", "b", "s", "u", "b", "m", "i", "t">>,
    referrer |->  \* "referrer"
        <<"r", "e", "f", "e", "r", "r", "e", "r">>,
    locale |->  \* "locale"
        <<"l", "o", "c", "a", "l", "e">>,
    reg_instance |->  \* "reg_instance"
        <<"r", "e", "g", "_", "i", "n", "s", "t", "a", "n", "c", "e">>,
    contactpoint_type |->  \* "contactpoint_type"
        <<"c", "o", "n", "t", "a", "c", "t", "p", "o", "i", "n", "t",
        "_", "t", "y", "p", "e">>,
    submission_request |->  \* "submission_request"
        <<"s", "u", "b", "m", "i", "s", "s", "i", "o", "n", "_", "r",
        "e", "q", "u", "e", "s", "t">>,
    is_birthday_verified |->  \* "is_birthday_verified"
        <<"i", "s", "_", "b", "i", "r", "t", "h", "d", "a", "y", "_",
        "v", "e", "r", "i", "f", "i", "e", "d">>,
    device_id |->  \* "device_id"
        <<"d", "e", "v", "i", "c", "e", "_", "i", "d">>,
    machine_id |->  \* "machine_id"
        <<"m", "a", "c", "h", "i", "n", "e", "_", "i", "d">>,
    timezone |->  \* "timezone"
        <<"t", "i", "m", "e", "z", "o", "n", "e">>,
    create_timestamp |->  \* "create_timestamp"
        <<"c", "r", "e", "a", "t", "e", "_", "t", "i", "m", "e", "s",
        "t", "a", "m", "p">>,
    platform |->  \* "platform"
        <<"p", "l", "a", "t", "f", "o", "r", "m">>,
    flow_name |->  \* "flow_name"
        <<"f", "l", "o", "w", "_", "n", "a", "m", "e">>,
    data_policy |->  \* "data_policy"
        <<"d", "a", "t", "a", "_", "p", "o", "l", "i", "c", "y">>,
    ref |->  \* "ref"
        <<"r", "e", "f">>,
    logger_id |->  \* "logger_id"
        <<"l", "o", "g", "g", "e", "r", "_", "i", "d">>,
    reg_impression_id |->  \* "reg_impression_id"
        <<"r", "e", "g", "_", "i", "m", "p", "r", "e", "s", "s", "i",
        "o", "n", "_", "i", "d">>,
    guid |->  \* "guid"
        <<"g", "u", "i", "d">>,
    action_type |->  \* "action_type"
        <<"a", "c", "t", "i", "o", "n", "_", "t", "y", "p", "e">>,
    ccp |->  \* "ccp"
        <<"c", "c", "p">>,
    application_locale |->  \* "application_locale"
        <<"a", "p", "p", "l", "i", "c", "a", "t", "i", "o", "n", "_",
        "l", "o", "c", "a", "l", "e">>,
    had_cp_prefilled |->  \* "had_cp_prefilled"
        <<"h", "a", "d", "_", "c", "p", "_", "p", "r", "e", "f", "i",
        "l", "l", "e", "d">>,
    had_password_prefilled |->  \* "had_password_prefilled"
        <<"h", "a", "d", "_", "p", "a", "s", "s", "w", "o", "r", "d",
        "_", "p", "r", "e", "f", "i", "l", "l", "e", "d">>,
    is_mobile_device |->  \* "is_mobile_device"
        <<"i", "s", "_", "m", "o", "b", "i", "l", "e", "_", "d", "e",
        "v", "i", "c", "e">>,
    n1 |->  \* "1"
        <<"1">>,
    n0 |->  \* "0"
        <<"0">>,
    n2 |->  \* "2"
        <<"2">>,
    mobile_fb |->  \* "mobile_fb"
        <<"m", "o", "b", "i", "l", "e", "_", "f", "b">>,
    en_US |->  \* "en_US"
        <<"e", "n", "_", "U", "S">>,
    true |->  \* "true"
        <<"t", "r", "u", "e">>,
    minus_480 |->  \* "-480"
        <<"-", "4", "8", "0">>,
    android |->  \* "android"
        <<"a", "n", "d", "r", "o", "i", "d">>,
    dbl |->  \* "dbl"
        <<"d", "b", "l">>,
    reg_email_u |->  \* "reg_email__"
        <<"r", "e", "g", "_", "e", "m", "a", "i", "l", "_", "_">>,
    email_password |->  \* "email_password"
        <<"e", "m", "a", "i", "l", "_", "p", "a", "s", "s", "w", "o",
        "r", "d">>,
    fb_noscript |->  \* "fb_noscript"
        <<"f", "b", "_", "n", "o", "s", "c", "r", "i", "p", "t">>,
    login |->  \* "/login/"
        <<"/", "l", "o", "g", "i", "n", "/">>,
    q |->  \* "q"
        <<"q">>,
    log_in |->  \* "log in"
        <<"l", "o", "g", " ", "i", "n">>,
    fr_FR |->  \* "fr_FR"
        <<"f", "r", "_", "F", "R">>,
    on |->  \* "on"
        <<"o", "n">> ]

\* a finder that takes the first form of the page, whatever it holds
FindFirstForm(soup) == IF Len(soup) = 0 THEN 0 ELSE 1

\* _find_registration_form(soup).  soup is the sequence of the page's <form>
\* elements in document order; of a form it reads the id, action, method and
\* name attributes (<<>> when absent), the name of each <input> (<<>> for an
\* input without one), the texts, values, ids and names of its submit
\* buttons, and the strings of the h2, h3 and div elements inside it.  The
\* result is the position of the form returned, 0 for None.
FindRegistrationForm(soup) ==
  LET form_selectors ==
        << [attr |-> "id",     op |-> "=",  value |-> FormText.mobile_reg_form],
           [attr |-> "id",     op |-> "=",  value |-> FormText.signup_form],
           [attr |-> "id",     op |-> "=",  value |-> FormText.reg],
           [attr |-> "id",     op |-> "=",  value |-> FormText.registration_form],
           [attr |-> "action", op |-> "=",  value |-> FormText.reg_submit],
           [attr |-> "method", op |-> "=",  value |-> FormText.post],
           [attr |-> "name",   op |-> "=",  value |-> FormText.reg],
           [attr |-> "action", op |-> "*=", value |-> FormText.reg],
           [attr |-> "action", op |-> "*=", value |-> FormText.signup],
           [attr |-> "action", op |-> "*=", value |-> FormText.register] >>
      registration_field_patterns ==
        {FormText.firstname, FormText.lastname, Lit.email, FormText.reg_email,
         FormText.password, FormText.reg_passwd, FormText.birthday,
         FormText.gender, FormText.sex, FormText.name_first, FormText.name_last}
      signup_terms ==
        {FormText.sign_up, FormText.signup, FormText.register, FormText.join,
         FormText.create, FormText.submit}
      area_terms ==
        {FormText.sign_up, FormText.create_account, FormText.join_facebook,
         FormText.registration}
      Selects(sel, form) ==
        IF sel.op = "=" THEN form[sel.attr] = sel.value
        ELSE Contains(form[sel.attr], sel.value)
      First(S) == IF S = {} THEN 0 ELSE CHOOSE i \in S : \A j \in S : i <= j
      forms == 1..Len(soup)
      select_one(sel) == First({i \in forms : Selects(sel, soup[i])})
      selected == {k \in 1..Len(form_selectors) : select_one(form_selectors[k]) # 0}
      by_field ==
        First({i \in forms : \E n \in Range(soup[i].inputs) :
                               ContainsAny(Lower(n), registration_field_patterns)})
      by_button ==
        First({i \in forms : \E t \in soup[i].submits : ContainsAny(Lower(t), signup_terms)})
      by_area ==
        First({i \in forms : \E t \in soup[i].areas : ContainsAny(Lower(t), area_terms)})
      by_size == First({i \in forms : Len(soup[i].inputs) >= 5})
  IN IF selected # {} THEN select_one(form_selectors[First(selected)])
     ELSE IF by_field # 0 THEN by_field
     ELSE IF by_button # 0 THEN by_button
     ELSE IF by_area # 0 THEN by_area
     ELSE by_size

\* str(n) of a natural number
RECURSIVE Str(_)
Str(n) ==
  LET digit == <<"0", "1", "2", "3", "4", "5", "6", "7", "8", "9">>
  IN IF n < 10 THEN <<digit[n + 1]>> ELSE Str(n \div 10) \o <<digit[(n % 10) + 1]>>

\* _fill_registration_form(form_data): form_data maps the scraped field names
\* to their values; current_year is datetime.now().year and uuid the value
\* uuid4() returns in this call
FillRegistrationForm(form_data, user_data, email, current_year, uuid) ==
  LET T == FormText
      Has(field, patterns) == \E p \in patterns : Contains(Lower(field), p)
      Put(m, key, value) == IF key \in DOMAIN m THEN [m EXCEPT ![key] = value] ELSE m
      PutFirst(m, k1, k2, value) ==
        IF k1 \in DOMAIN m THEN Put(m, k1, value) ELSE Put(m, k2, value)
      Fill(m, patterns, value) ==
        [f \in DOMAIN m |-> IF Has(f, patterns) THEN value ELSE m[f]]
      RECURSIVE FillEach(_, _)
      FillEach(m, pairs) ==
        IF pairs = <<>> THEN m
        ELSE FillEach(Fill(m, {Lower(Head(pairs)[1])}, Head(pairs)[2]), Tail(pairs))
      day == Str(user_data.birth_day)
      month == Str(user_data.birth_month)
      year == Str(user_data.birth_year)
      name_field_patterns ==
        << <<T.firstname, user_data.first_name>>,
           <<T.lastname, user_data.last_name>>,
           <<T.first_name, user_data.first_name>>,
           <<T.last_name, user_data.last_name>>,
           <<T.name_first, user_data.first_name>>,
           <<T.name_last, user_data.last_name>>,
           <<T.full_name, user_data.first_name \o <<" ">> \o user_data.last_name>>,
           <<T.firstName_c, user_data.first_name>>,
           <<T.lastName_c, user_data.last_name>> >>
      email_field_patterns ==
        {Lit.email, T.reg_email, T.contactpoint, T.email_address, T.emailaddress}
      confirmation_patterns == {Lit.confirm, T.verification, T.repeat}
      password_patterns == {T.pass, T.passwd, T.password}
      gender_patterns == {T.sex, T.gender}
      terms_patterns == {T.terms, T.privacy, T.tos, T.policy, T.agree}
      common_fields ==
        (T.websubmit :> T.n1) @@ (T.referrer :> T.mobile_fb) @@
        (T.locale :> T.en_US) @@ (T.reg_instance :> uuid) @@
        (T.contactpoint_type :> Lit.email) @@ (T.submission_request :> T.true) @@
        (T.is_birthday_verified :> T.true) @@ (T.device_id :> user_data.device_id)
      b1 == PutFirst(form_data, T.birthday_day, T.birthday_day_b, day)
      b2 == PutFirst(b1, T.birthday_month, T.birthday_month_b, month)
      b3 == PutFirst(b2, T.birthday_year, T.birthday_year_b, year)
      b4 == Put(Put(Put(b3, T.day, day), T.month, month), T.year, year)
      b5 == Put(b4, T.birthday, month \o <<"/">> \o day \o <<"/">> \o year)
      b6 == Put(b5, T.birthday_age, Str(current_year - user_data.birth_year))
      named == FillEach(b6, name_field_patterns)
      mailed == Fill(named, email_field_patterns, email)
      confirmed ==
        [f \in DOMAIN mailed |->
           IF Has(f, confirmation_patterns) /\ Has(f, email_field_patterns)
           THEN email ELSE mailed[f]]
      passworded == Fill(confirmed, password_patterns, user_data.password)
      gendered == Fill(passworded, gender_patterns, user_data.gender)
      agreed ==
        [f \in DOMAIN gendered |->
           IF Has(f, terms_patterns) /\ gendered[f] \in {<<>>, T.n0}
           THEN T.n1 ELSE gendered[f]]
  IN agreed @@ common_fields

\* _add_extra_form_fields(form_data): every name is assigned, present or not.
\* fresh holds the values of time.time() and of the uuid4() calls
AddExtraFormFields(form_data, user_data, fresh) ==
  LET T == FormText
      UpperOf(c) == IF c = "d" THEN "D" ELSE c
      Upper(t) == [i \in 1..Len(t) |-> UpperOf(t[i])]
      extra ==
        (T.device_id :> user_data.device_id) @@ (T.machine_id :> user_data.machine_id) @@
        (T.locale :> T.en_US) @@ (T.timezone :> T.minus_480) @@
        (T.create_timestamp :> fresh.time) @@ (T.reg_instance :> fresh.reg_instance) @@
        (T.platform :> T.android) @@ (T.flow_name :> T.reg) @@
        (T.terms :> T.n1) @@ (T.data_policy :> T.n1) @@ (T.tos :> T.n1) @@
        (T.websubmit :> T.n1) @@ (T.ref :> T.dbl) @@ (T.referrer :> <<>>) @@
        (T.logger_id :> fresh.logger_id) @@
        (T.reg_impression_id :> fresh.reg_impression_id) @@
        (T.guid :> Upper(user_data.device_id)) @@ (T.action_type :> T.submit) @@
        (T.ccp :> T.n2) @@ (T.application_locale :> T.en_US) @@
        (T.is_birthday_verified :> T.true) @@
        (T.birthday_age :> Str(2025 - user_data.birth_year)) @@
        (T.had_cp_prefilled :> T.n0) @@ (T.had_password_prefilled :> T.n0) @@
        (T.is_mobile_device :> T.true)
  IN extra @@ form_data

-----------------------------------------------------------------------------
(* SpecFn: methods whose result is a function of their arguments and of the
   object's fields, each called on the inputs it can meet.  A behaviour is one
   call: the methods read nothing a previous call of SpecFn has left.  The
   call of the verification handler takes one step per method frame. *)

\* clear_cookies on a jar holding any of five cookies, each with a value, with
\* the empty value or without a value
Fn_clear_cookies ==
  /\ fn = "none"
  /\ \E names \in SUBSET {"datr", "fr", "c_user", "xs", "presence"},
        preserve_fingerprint \in BOOLEAN :
       \E jar \in [names -> {Val.datr, Val.empty, Val.none}] :
         /\ fn' = "clear_cookies"
         /\ fn_arg' = [jar |-> jar, preserve_fingerprint |-> preserve_fingerprint]
         /\ fn_ret' = ClearCookies(jar, preserve_fingerprint)
         /\ UNCHANGED <<pmvars, wfvars, httpvars>>

\* load_proxies() on a fresh ProxyManager, for every content of the two files
\* and every answer of the remote list provider
Fn_load_proxies ==
  /\ fn = "none"
  /\ LET ListFileLines == ListLines \cup {Line("comment", 0)}
         ListFiles == {NoFile} \cup {File(l) : l \in SeqsUpTo(ListFileLines, MaxLines)}
         CacheFiles == {NoFile} \cup
                         {File(l) : l \in SeqsUpTo(CacheLines \cup {Line("comment", 0)}, 1)}
     IN \E pf \in ListFiles, wf \in CacheFiles, api \in ApiAnswers :
          /\ fn' = "load_proxies"
          /\ fn_arg' = [proxy_file |-> pf, working_proxies_file |-> wf, api |-> api]
          /\ fn_ret' = LoadProxies(<<>>, <<>>, pf, wf, api)
          /\ UNCHANGED <<pmvars, wfvars, httpvars>>

\* _find_registration_form on a page of up to MaxForms forms
Fn_find_registration_form ==
  /\ fn = "none"
  /\ LET T == FormText
         Form(id, action, method, name, inputs, submits, areas) ==
           [id |-> id, action |-> action, method |-> method, name |-> name,
            inputs |-> inputs, submits |-> submits, areas |-> areas]
         Forms ==
           { Form(<<>>, <<>>, <<>>, <<>>, <<T.reg_email, T.reg_passwd>>, {}, {}),
             Form(T.mobile_reg_form, T.reg_submit, T.post, <<>>, <<T.reg_email>>, {T.sign_up}, {}),
             Form(<<>>, T.login, T.post, <<>>, <<Lit.email, T.pass>>, {T.log_in}, {}),
             Form(T.signup_form, <<>>, <<>>, <<>>, <<T.q>>, {}, {}),
             Form(<<>>, <<>>, <<>>, <<>>, <<T.q>>, {}, {}),
             Form(<<>>, <<>>, <<>>, <<>>, <<Lit.email>>, {}, {}),
             Form(<<>>, <<>>, <<>>, <<>>, <<T.q>>, {T.join}, {}),
             Form(<<>>, <<>>, <<>>, <<>>, <<T.q>>, {}, {T.create_account}),
             Form(<<>>, <<>>, <<>>, <<>>, <<T.q, T.q, <<>>, T.q, T.q>>, {}, {}) }
     IN \E soup \in SeqsUpTo(Forms, MaxForms) :
          /\ fn' = "find_registration_form"
          /\ fn_arg' = [soup |-> soup]
          /\ fn_ret' = FindRegistrationForm(soup)
          /\ UNCHANGED <<pmvars, wfvars, httpvars>>

\* _mobile_registration and _desktop_registration between finding the form and
\* the POST: the scraped fields are filled, then the extra fields are added.
\* The scraped map has up to MaxFields of ten field names, each with one of
\* four values.
Fn_registration_form_data ==
  /\ fn = "none"
  /\ LET T == FormText
         user_data ==
           [first_name |-> <<"A", "n", "n">>, last_name |-> <<"L", "e", "e">>,
            password |-> <<"p", "w", "9">>, gender |-> <<"2">>,
            birth_day |-> 15, birth_month |-> 6, birth_year |-> 1990,
            device_id |-> <<"d", "1">>, machine_id |-> <<"m", "1">>]
         email == <<"a", "@", "b", ".", "c">>
         fresh ==
           [time |-> Str(1762128000), reg_instance |-> <<"u", "3">>,
            logger_id |-> <<"u", "4">>, reg_impression_id |-> <<"u", "5">>]
         Names ==
           {T.reg_email_u, T.email_password, T.terms, T.locale, T.contactpoint_type,
            T.firstname, T.sex, T.birthday_day, T.birthday_day_b, T.fb_noscript}
         Values == {<<>>, T.n0, T.on, T.fr_FR}
     IN \E names \in {S \in SUBSET Names : Cardinality(S) <= MaxFields},
           uuid \in {<<"u", "1">>, <<"u", "2">>} :
          \E form_data \in [names -> Values] :
            LET filled == FillRegistrationForm(form_data, user_data, email, 2026, uuid)
            IN /\ fn' = "registration_form_data"
               /\ fn_arg' = [form_data |-> form_data, user_data |-> user_data,
                             email |-> email, current_year |-> 2026, uuid |-> uuid]
               /\ fn_ret' = [filled |-> filled,
                             posted |-> AddExtraFormFields(filled, user_data, fresh)]
               /\ UNCHANGED <<pmvars, wfvars, httpvars>>

\* CONFIG["min_age"], CONFIG["max_age"]
MinAge == 19
MaxAge == 42

\* Variant of days_in_month with a leap year every fourth year
DaysInMonthEveryFourth(month, year) ==
  IF month \in {4, 6, 9, 11} THEN 30
  ELSE IF month = 2 THEN (IF year % 4 = 0 THEN 29 ELSE 28)
  ELSE 31

\* days_in_month(month, year) (helpers.py:120-131)
DaysInMonth(month, year) ==
  IF month \in {4, 6, 9, 11} THEN 30
  ELSE IF month = 2
       THEN IF year % 4 = 0 /\ (year % 100 # 0 \/ year % 400 = 0) THEN 29 ELSE 28
  ELSE 31

\* AccountGenerator.generate_user_data (generator.py:26-35): the birth date.
\* datetime.now().year is 2026 or 2119, so that the birth years reach 2000
\* and 2100; each random.randint draws any value of its range. The names,
\* the gender, the password and the ids are drawn independently of the date.
Fn_generate_user_data ==
  /\ fn = "none"
  /\ \E current_year \in {2026, 2119} :
       \E birth_year \in (current_year - MaxAge)..(current_year - MinAge),
          birth_month \in 1..12 :
         \E birth_day \in 1..DaysInMonth(birth_month, birth_year) :
           /\ fn' = "generate_user_data"
           /\ fn_arg' = [current_year |-> current_year]
           /\ fn_ret' = [birth_year |-> birth_year, birth_month |-> birth_month,
                         birth_day |-> birth_day]
           /\ UNCHANGED <<pmvars, wfvars, httpvars>>

\* the longest password asked for
MaxPasswordLength == 5

\* Variant of generate_strong_password that draws every character from all
\* four sets
GenerateStrongPasswordAnyChars(length) ==
  LET all_chars == {"a", "A", "1", "!", "?"}
  IN IF length > 0 THEN [1..length -> all_chars] ELSE {<<>>}

\* generate_strong_password(length) (helpers.py:15-40): the strings it can
\* return. One character of each set, then range(length - 4) characters of
\* any set (none when length - 4 is not positive), shuffled. The lowercase
\* letters are cut down to "a", the uppercase ones to "A", the digits to "1",
\* the special characters to "!" and "?".
GenerateStrongPassword(length) ==
  LET lowercase == {"a"}
      uppercase == {"A"}
      digits == {"1"}
      special == {"!", "?"}
      all_chars == lowercase \cup uppercase \cup digits \cup special
      remaining_length == length - 4
      rest == IF remaining_length > 0 THEN [1..remaining_length -> all_chars] ELSE {<<>>}
      n == IF remaining_length > 0 THEN length ELSE 4
      \* the orders random.shuffle can leave the n characters in
      orders == {q \in [1..n -> 1..n] : \A a, b \in 1..n : q[a] = q[b] => a = b}
  IN {[i \in 1..n |-> (<<t[1], t[2], t[3], t[4]>> \o t[5])[p[i]]] :
        p \in orders,
        t \in lowercase \X uppercase \X digits \X special \X rest}

\* one call of generate_strong_password with a length up to MaxPasswordLength
Fn_generate_strong_password ==
  /\ fn = "none"
  /\ \E length \in 0..MaxPasswordLength :
       \E password \in GenerateStrongPassword(length) :
         /\ fn' = "generate_strong_password"
         /\ fn_arg' = [length |-> length]
         /\ fn_ret' = password
         /\ UNCHANGED <<pmvars, wfvars, httpvars>>

\* The words of the patterns, the phrases and the URL terms the handler tests,
\* and the texts and URLs of the pages it is called on
VerifyText ==
  [ confirm |->  \* "confirm"
        <<"c", "o", "n", "f", "i", "r", "m">>,
    email |->  \* "email"
        <<"e", "m", "a", "i", "l">>,
    verify |->  \* "verify"
        <<"v", "e", "r", "i", "f", "y">>,
    check |->  \* "check"
        <<"c", "h", "e", "c", "k">>,
    inbox |->  \* "inbox"
        <<"i", "n", "b", "o", "x">>,
    phone |->  \* "phone"
        <<"p", "h", "o", "n", "e">>,
    mobile |->  \* "mobile"
        <<"m", "o", "b", "i", "l", "e">>,
    text |->  \* "text"
        <<"t", "e", "x", "t">>,
    sms |->  \* "sms"
        <<"s", "m", "s">>,
    captcha |->  \* "captcha"
        <<"c", "a", "p", "t", "c", "h", "a">>,
    security |->  \* "security"
        <<"s", "e", "c", "u", "r", "i", "t", "y">>,
    not |->  \* "not"
        <<"n", "o", "t">>,
    robot |->  \* "robot"
        <<"r", "o", "b", "o", "t">>,
    confirmation_code |->  \* "confirmation code"
        <<"c", "o", "n", "f", "i", "r", "m", "a", "t", "i", "o", "n",
        " ", "c", "o", "d", "e">>,
    verification_code |->  \* "verification code"
        <<"v", "e", "r", "i", "f", "i", "c", "a", "t", "i", "o", "n",
        " ", "c", "o", "d", "e">>,
    code_sent |->  \* "code sent"
        <<"c", "o", "d", "e", " ", "s", "e", "n", "t">>,
    enter_the_code |->  \* "enter the code"
        <<"e", "n", "t", "e", "r", " ", "t", "h", "e", " ", "c", "o",
        "d", "e">>,
    check_your_email |->  \* "check your email"
        <<"c", "h", "e", "c", "k", " ", "y", "o", "u", "r", " ", "e",
        "m", "a", "i", "l">>,
    fb_dash |->  \* "fb-"
        <<"f", "b", "-">>,
    code_from_your_email |->  \* "code from your email"
        <<"c", "o", "d", "e", " ", "f", "r", "o", "m", " ", "y", "o",
        "u", "r", " ", "e", "m", "a", "i", "l">>,
    another_code |->  \* "another code"
        <<"a", "n", "o", "t", "h", "e", "r", " ", "c", "o", "d", "e">>,
    new_code |->  \* "new code"
        <<"n", "e", "w", " ", "c", "o", "d", "e">>,
    home_php |->  \* "home.php"
        <<"h", "o", "m", "e", ".", "p", "h", "p">>,
    welcome |->  \* "welcome"
        <<"w", "e", "l", "c", "o", "m", "e">>,
    checkpoint |->  \* "checkpoint"
        <<"c", "h", "e", "c", "k", "p", "o", "i", "n", "t">>,
    t_confirm_email |->  \* "Confirm your email"
        <<"C", "o", "n", "f", "i", "r", "m", " ", "y", "o", "u", "r",
        " ", "e", "m", "a", "i", "l">>,
    t_enter_captcha |->  \* "Enter captcha"
        <<"E", "n", "t", "e", "r", " ", "c", "a", "p", "t", "c", "h",
        "a">>,
    t_email_or_sms |->  \* "verify email or sms"
        <<"v", "e", "r", "i", "f", "y", " ", "e", "m", "a", "i", "l",
        " ", "o", "r", " ", "s", "m", "s">>,
    t_phone_captcha |->  \* "phone captcha"
        <<"p", "h", "o", "n", "e", " ", "c", "a", "p", "t", "c", "h",
        "a">>,
    t_split |->  \* "confirm\nemail"
        <<"c", "o", "n", "f", "i", "r", "m", "\n", "e", "m", "a", "i",
        "l">>,
    t_security_check |->  \* "security check"
        <<"s", "e", "c", "u", "r", "i", "t", "y", " ", "c", "h", "e",
        "c", "k">>,
    t_enter_new_code |->  \* "enter a new code"
        <<"e", "n", "t", "e", "r", " ", "a", " ", "n", "e", "w", " ",
        "c", "o", "d", "e">>,
    u_checkpoint |->  \* "https://m.facebook.com/checkpoint/"
        <<"h", "t", "t", "p", "s", ":", "/", "/", "m", ".", "f", "a",
        "c", "e", "b", "o", "o", "k", ".", "c", "o", "m", "/", "c",
        "h", "e", "c", "k", "p", "o", "i", "n", "t", "/">>,
    u_confirmemail |->  \* "https://m.facebook.com/confirmemail.php"
        <<"h", "t", "t", "p", "s", ":", "/", "/", "m", ".", "f", "a",
        "c", "e", "b", "o", "o", "k", ".", "c", "o", "m", "/", "c",
        "o", "n", "f", "i", "r", "m", "e", "m", "a", "i", "l", ".",
        "p", "h", "p">>,
    u_home |->  \* "https://m.facebook.com/home.php"
        <<"h", "t", "t", "p", "s", ":", "/", "/", "m", ".", "f", "a",
        "c", "e", "b", "o", "o", "k", ".", "c", "o", "m", "/", "h",
        "o", "m", "e", ".", "p", "h", "p">>,
    u_other |->  \* "https://m.facebook.com/x"
        <<"h", "t", "t", "p", "s", ":", "/", "/", "m", ".", "f", "a",
        "c", "e", "b", "o", "o", "k", ".", "c", "o", "m", "/", "x">> ]

\* What the handler reads of a response: its URL, the text of the page,
\* whether the page has a form, whether its first link or button with an
\* email wording has an href ("href"), has none ("nohref") or there is no such
\* link ("none"), and whether the jar holds c_user once it has arrived
VerifyPages ==
  LET V == VerifyText
      P(url, text, form, button, c_user) ==
        [url |-> url, text |-> text, form |-> form, button |-> button, c_user |-> c_user]
  IN { P(V.u_checkpoint, V.t_confirm_email, FALSE, "href", FALSE),
       P(V.u_checkpoint, V.t_confirm_email, TRUE, "nohref", FALSE),
       P(V.u_checkpoint, V.t_email_or_sms, FALSE, "none", FALSE),
       P(V.u_checkpoint, V.sms, TRUE, "none", FALSE),
       P(V.u_checkpoint, V.t_phone_captcha, TRUE, "href", FALSE),
       P(V.u_checkpoint, V.t_enter_captcha, TRUE, "none", FALSE),
       P(V.u_checkpoint, V.t_security_check, FALSE, "none", FALSE),
       P(V.u_checkpoint, V.t_split, TRUE, "none", FALSE),
       P(V.u_checkpoint, V.enter_the_code, TRUE, "none", FALSE),
       P(V.u_checkpoint, V.check_your_email, FALSE, "none", FALSE),
       P(V.u_checkpoint, V.t_enter_new_code, TRUE, "none", FALSE),
       P(V.u_confirmemail, V.sms, FALSE, "href", FALSE),
       P(V.u_other, V.welcome, TRUE, "none", TRUE),
       P(V.u_other, V.welcome, FALSE, "none", FALSE),
       P(V.u_home, V.welcome, FALSE, "none", TRUE) }

\* the most links one call follows in the model, and the most further codes
\* the user enters when asked for another one
MaxFollows == 3
MaxCodes == 1

\* Variant of handle_verification that does not classify the page
VerificationTypeUnknown(page_text) == "unknown"

\* verification_type of handle_verification (verification.py:33-40): the
\* three re.search calls in order. `.` matches any character but a newline.
VerificationType(page_text) ==
  LET V == VerifyText
      Occ(w) == {i \in 1..(Len(page_text) - Len(w) + 1) :
                   SubSeq(page_text, i, i + Len(w) - 1) = w}
      SameLine(a, b) == \A k \in a..b : page_text[k] # "\n"
      \* w1.*w2
      Then(w1, w2) ==
        \E i \in Occ(w1), j \in Occ(w2) :
          j >= i + Len(w1) /\ SameLine(i + Len(w1), j - 1)
      \* w1.*w2.*w3
      Then3(w1, w2, w3) ==
        \E i \in Occ(w1), j \in Occ(w2), k \in Occ(w3) :
          /\ j >= i + Len(w1) /\ k >= j + Len(w2)
          /\ SameLine(i + Len(w1), k - 1)
      \* w1.w2
      Dot(w1, w2) ==
        \E i \in Occ(w1) :
          i + Len(w1) + 1 \in Occ(w2) /\ page_text[i + Len(w1)] # "\n"
  IN IF Then(V.confirm, V.email) \/ Then(V.verify, V.email) \/ Then(V.check, V.inbox)
     THEN "email"
     ELSE IF Occ(V.phone) # {} \/ Occ(V.mobile) # {} \/ Occ(V.text) # {} \/ Occ(V.sms) # {}
     THEN "phone"
     ELSE IF Occ(V.captcha) # {} \/ Dot(V.security, V.check)
             \/ Then3(V.confirm, V.not, V.robot)
     THEN "captcha"
     ELSE "unknown"

\* handle_verification(response) (verification.py:20-144) up to its return or
\* to its call of handle_email_verification. fn_ret is the call in progress:
\* where it is, the page in hand, the verification type ("url" when the URL
\* test sent it to the email handler), whether the generic form was posted,
\* the links followed, the further codes entered, the requests issued and
\* the value returned.
Fn_handle_verification ==
  /\ fn = "none"
  /\ \E response \in VerifyPages :
       LET V == VerifyText
           url == Lower(response.url)
           At(at, type, posted, requests, value) ==
             fn_ret' = [at |-> at, page |-> response, type |-> type, posted |-> posted,
                        follows |-> 0, codes |-> 0, requests |-> requests, value |-> value]
           type == VerificationType(Lower(response.text))
           Passed(r) ==
             IF Contains(r.url, V.home_php) \/ Contains(r.url, V.welcome) THEN TRUE
             ELSE IF Contains(r.url, V.checkpoint) \/ Contains(r.url, V.confirm) THEN FALSE
             ELSE r.c_user
       IN /\ fn' = "handle_verification"
          /\ fn_arg' = [response |-> response]
          /\ IF Contains(url, V.email) /\ (Contains(url, V.confirm) \/ Contains(url, V.verify))
             THEN At("email", "url", FALSE, 0, FALSE)
             ELSE IF type = "email" THEN At("email", type, FALSE, 0, FALSE)
             ELSE IF type \in {"phone", "captcha"} THEN At("done", type, FALSE, 0, FALSE)
             ELSE IF ~response.form THEN At("done", type, FALSE, 0, FALSE)
             ELSE \* the form is posted; post raises or gives None: except Exception
                  \/ At("done", type, TRUE, 1, FALSE)
                  \/ \E r \in VerifyPages : At("done", type, TRUE, 1, Passed(r))
  /\ UNCHANGED <<pmvars, wfvars, httpvars>>

\* handle_email_verification(response) (verification.py:146-313), one call
\* frame: the page is a code page and the user is asked (nothing, a link or a
\* code), or it is not and the first email link is fetched and handled by a
\* new frame, or the user is asked. get_verification_info and input answer
\* anything. A request that raises or gives None ends the call with False
\* (except Exception). The code sets no bound on the links followed; the
\* model stops at MaxFollows.
Fn_handle_email_verification ==
  /\ fn = "handle_verification"
  /\ fn_ret.at = "email"
  /\ LET V == VerifyText
         page == fn_ret.page
         page_text == Lower(page.text)
         is_code_page ==
           \E phrase \in {V.confirmation_code, V.verification_code, V.code_sent,
                          V.enter_the_code, V.check_your_email, V.fb_dash,
                          V.code_from_your_email} : Contains(page_text, phrase)
         Success(r) ==
           Contains(r.url, V.home_php) \/ Contains(r.url, V.welcome) \/ r.c_user
         Done(value, requests) ==
           fn_ret' = [fn_ret EXCEPT !.at = "done", !.value = value,
                                    !.requests = @ + requests]
         Submit(p, requests) ==
           fn_ret' = [fn_ret EXCEPT !.at = "submit", !.page = p,
                                    !.requests = @ + requests]
         \* the GET of the link the user gave; on a code page a response with
         \* a form lets the user enter a code
         Link(code_page) ==
           \/ Done(FALSE, 1)
           \/ \E r \in VerifyPages :
                IF Success(r) THEN Done(TRUE, 1)
                ELSE IF code_page /\ r.form THEN Submit(r, 1) \/ Done(FALSE, 1)
                ELSE Done(FALSE, 1)
     IN IF is_code_page
        THEN \/ Done(FALSE, 0)
             \/ Link(TRUE)
             \/ IF page.form THEN Submit(page, 0) ELSE Done(FALSE, 0)
        ELSE IF page.button = "href"
        THEN /\ fn_ret.follows < MaxFollows
             /\ \/ Done(FALSE, 1)
                \/ \E r \in VerifyPages :
                     fn_ret' = [fn_ret EXCEPT !.page = r, !.follows = @ + 1,
                                              !.requests = @ + 1]
        ELSE \/ Link(FALSE)
             \/ Done(FALSE, 0)
  /\ UNCHANGED <<fn, fn_arg, pmvars, wfvars, httpvars>>

\* _submit_verification_code(form, page_url, code) (verification.py:343-492):
\* the POST of the code, and the next code when the site asks for another one
\* and the user enters it (at most MaxCodes times)
Fn_submit_verification_code ==
  /\ fn = "handle_verification"
  /\ fn_ret.at = "submit"
  /\ LET V == VerifyText
         Done(value) ==
           fn_ret' = [fn_ret EXCEPT !.at = "done", !.value = value, !.requests = @ + 1]
     IN \/ Done(FALSE)
        \/ \E r \in VerifyPages :
             IF Contains(r.url, V.home_php) \/ Contains(r.url, V.welcome) \/ r.c_user
             THEN Done(TRUE)
             ELSE IF /\ Contains(r.url, V.checkpoint) \/ Contains(r.url, V.confirm)
                     /\ \/ Contains(Lower(r.text), V.another_code)
                        \/ Contains(Lower(r.text), V.new_code)
             THEN \/ Done(FALSE)
                  \/ /\ r.form
                     /\ fn_ret.codes < MaxCodes
                     /\ fn_ret' = [fn_ret EXCEPT !.page = r, !.codes = @ + 1,
                                                 !.requests = @ + 1]
             ELSE Done(FALSE)
  /\ UNCHANGED <<fn, fn_arg, pmvars, wfvars, httpvars>>

NextFn ==
  \/ Fn_clear_cookies
  \/ Fn_load_proxies
  \/ Fn_find_registration_form
  \/ Fn_registration_form_data
  \/ Fn_generate_user_data
  \/ Fn_generate_strong_password
  \/ Fn_handle_verification
  \/ Fn_handle_email_verification
  \/ Fn_submit_verification_code

SpecFn == InitHTTP /\ [][NextFn]_vars

-----------------------------------------------------------------------------
(* Properties *)

StrategyOrder == <<"mobile", "desktop", "api">>
Outcomes == {"Success", "VerificationRequired", "Partial", "Failure"}
RegistrationPosts == {"m_post", "d_post", "a_post"}

\* C1: create_account starts the strategies in the order mobile, desktop, API,
\* each at most once, a later one only after every earlier one returned a
\* falsy value, and the call ends by returning (never raising) one of the
\* four outcomes: the last strategy's value when truthy, Partial or Failure
\* otherwise.
C1_StrategiesInOrder ==
  /\ \E n \in 0..3 : started = SubSeq(StrategyOrder, 1, n)
  /\ Len(returned) \in {Len(started) - 1, Len(started)}
  /\ \A i \in 1..Len(returned) : i < Len(started) => returned[i] = "Failure"
  /\ pc = "twp_result" =>
       /\ ca_exc = "none"
       /\ ca_result # NoResult
       /\ Len(returned) = Len(started)
       /\ Len(started) >= 1
       /\ Outcome(ca_result) \in Outcomes
       /\ returned[Len(returned)] # "Failure" => Outcome(ca_result) = returned[Len(returned)]
       /\ returned[Len(returned)] = "Failure" =>
            /\ started = StrategyOrder
            /\ Outcome(ca_result) \in {"Partial", "Failure"}

\* C1 witness: all three strategies ran and the call ended Partial
C1_Witness ==
  /\ pc = "twp_result"
  /\ started = StrategyOrder
  /\ returned = <<"Failure", "Failure", "Failure">>
  /\ Outcome(ca_result) = "Partial"

\* C2: when a form POST (mobile, desktop, API or login fallback) returned a
\* response, the jar then holds a non-empty c_user and the response URL
\* contains a checkpoint / confirmation substring, the strategy returns
\* Success, not VerificationRequired.
C2_CookieBeforeUrl ==
  (/\ pc = "ca_next"
   /\ last_post.stage \in RegistrationPosts \cup {"l_post"}
   /\ last_post.returned
   /\ last_post.c_user # <<>>
   /\ ContainsAny(last_post.url, {Lit.checkpoint, Lit.confirmation, Lit.confirmemail}))
    => /\ Outcome(result) = "Success"
       /\ result.user_id = last_post.c_user

\* C2 witness: the mobile POST ended on a checkpoint URL with c_user set
C2_Witness ==
  /\ pc = "ca_next"
  /\ last_post.stage = "m_post"
  /\ last_post.returned
  /\ last_post.c_user = Val.c_user
  /\ last_post.url = Url.checkpoint
  /\ Outcome(result) = "Success"

\* C3 (as stated): whenever create_account returns an outcome, Failure
\* included, try_with_proxy returns it at once and obtains no further proxy.
C3_AnyOutcomeReturnedAtOnce ==
  [][(pc = "twp_result" /\ ca_exc = "none") =>
       (pc' = "main_report" /\ attempt' = attempt)]_vars

\* C3 (amended): a truthy outcome (Success, Partial, VerificationRequired) is
\* returned at once; after a Failure with attempts left try_with_proxy sleeps
\* 5 + 3 * attempt seconds and starts the next attempt without evicting the
\* proxy; it returns False only after the last attempt.
C3_OnlyTruthyReturnedAtOnce ==
  [][(pc = "twp_result" /\ ca_exc = "none") =>
       IF Truthy(ca_result)
       THEN /\ pc' = "main_report"
            /\ twp_result' = ca_result
            /\ UNCHANGED <<attempt, delays, pmvars>>
       ELSE IF attempt < MaxProxyAttempts - 1
       THEN /\ pc' = "twp_get"
            /\ attempt' = attempt + 1
            /\ delays' = Append(delays, 5 + 3 * attempt)
            /\ UNCHANGED <<twp_result, pmvars>>
       ELSE /\ pc' = "main_report"
            /\ twp_result' = FalseResult
            /\ UNCHANGED <<attempt, delays, pmvars>>]_vars

\* C3 witness: a second attempt is under way after a Failure, nothing evicted
C3_Witness ==
  /\ pc = "warmup"
  /\ attempt = 1
  /\ delays = <<5>>
  /\ ca_result = FalseResult
  /\ evicted = {}

\* C4: when a request of a strategy raised a transport error after the
\* session's retries, create_account raises it to try_with_proxy.
C4_TransportFailurePropagates ==
  (pc = "twp_result" /\ transport_failed) => ca_exc \in TransportErrors

\* C5: once remove_current_proxy was called with p current, no later
\* get_proxy / get_next_proxy returns p (until the lists are loaded again).
C5_EvictedNeverReturned ==
  (last_call.op \in {"get_proxy", "get_next_proxy"} /\ last_call.ok)
    => last_call.proxy \notin evicted

\* C6: right after remove_current_proxy was called with p current, the
\* working-proxy file does not list p.
C6_EvictedNotInFile ==
  (last_call.op = "remove_current_proxy" /\ last_call.proxy # NoneProxy)
    => last_call.proxy \notin Range(ParseWorking(working_proxies_file.lines))

\* the ids _finalize_account may resolve: the one supplied, the c_user
\* cookie, the numeric head of xs, a long numeric part of fr, a numeric
\* i_user / presence / a_user
ResolvableIds(arg, j) ==
  LET cookie(n) == IF n \in DOMAIN j THEN j[n] ELSE <<>>
      xs == Split(cookie("xs"), ":")
      fr == Split(cookie("fr"), ".")
  IN ({arg, cookie("c_user")}
        \cup (IF Len(xs) >= 2 /\ IsDigit(xs[1]) THEN {xs[1]} ELSE {})
        \cup {fr[i] : i \in {k \in 1..Len(fr) : IsDigit(fr[k]) /\ Len(fr[k]) > 8}}
        \cup {cookie(n) : n \in {m \in {"i_user", "presence", "a_user"} : IsDigit(cookie(m))}})
       \ {<<>>}

\* C7: a Success result always carries a non-empty user id, which is one of
\* the ids finalization can resolve; when finalization resolves none, the
\* result is the partial info (success false, partial true).
C7_SuccessHasUserId ==
  /\ \A r \in {result, ca_result, twp_result} : r.success => r.user_id # <<>>
  /\ (pc = "ca_next" /\ fin.called) =>
       IF ResolvableIds(fin.arg, cookies) = {}
       THEN result = PartialInfo
       ELSE result.success /\ result.user_id \in ResolvableIds(fin.arg, cookies)

\* C7 witness: finalization found no id and returned the partial info
C7_Witness ==
  /\ pc = "ca_next"
  /\ fin.called
  /\ ResolvableIds(fin.arg, cookies) = {}
  /\ result = PartialInfo

C9_HandlerInvoked ==
  (/\ pc = "ca_next"
   /\ last_post.stage \in RegistrationPosts
   /\ last_post.returned
   /\ last_post.c_user = <<>>
   /\ ContainsAny(last_post.url, {Lit.checkpoint, Lit.confirmation, Lit.confirmemail})
   /\ last_post.text = Text.enter_the_code)
    => vh_calls # <<>>

\* the report the operator is to receive for each outcome
ExpectedReport(outcome) ==
  CASE outcome = "Success" -> <<ReportHeader.success>>
    [] outcome = "VerificationRequired" -> <<"Verification Required">>
    [] outcome = "Partial" -> <<ReportHeader.partial>>
    [] OTHER -> <<ReportHeader.failed>>

\* C10: when main ends after try_with_proxy returned, it has printed exactly
\* the report that matches the outcome, and not the unexpected-error one.
C10_ReportMatchesOutcome ==
  (pc = "done" /\ twp_result # NoResult)
    => report = ExpectedReport(Outcome(twp_result))

\* C11: when the mobile strategy returned False because the POST response
\* carried error messages, an email-related message ends create_account (no
\* desktop, API or login request follows), and any other message lets
\* create_account start the desktop strategy.
C11_EmailErrorEndsRun ==
  [][(/\ pc = "ca_next"
      /\ last_post.stage = "m_post"
      /\ last_post.returned
      /\ last_post.errors # <<>>
      /\ Outcome(result) = "Failure")
       => IF EmailError(last_post.errors)
          THEN pc' = "twp_result"
          ELSE pc' = "d_google"]_vars

\* C12: after the POST of the mobile, the desktop and the API strategy alike,
\* a response that left no c_user cookie, whose URL has no checkpoint /
\* confirmation / welcome / home substring, whose body shows no login form
\* and contains a verification phrase is classified VerificationRequired.
C12_SameRulesAfterEveryPost ==
  (/\ last_post.stage \in RegistrationPosts
   /\ last_post.returned
   /\ last_post.c_user = <<>>
   /\ ~ContainsAny(last_post.url, RegistrationVerificationTerms \cup {Lit.welcome, Lit.home})
   /\ ~last_post.login_form
   /\ ContainsAny(Lower(last_post.text), VerificationPhrases))
    => /\ pc # "l_get"
       /\ result = VerificationInfo

\* where create_account goes when strategy strat returned a falsy value
AfterFailureOf(strat) ==
  CASE strat = "mobile" -> "d_google"
    [] strat = "desktop" -> "a_token"
    [] OTHER -> "twp_result"

\* C13 (as stated): an exception raised inside a strategy (its own requests
\* or its login fallback) never leaves create_account; the strategy counts
\* as not successful and create_account goes on to the next strategy in
\* order (after the API strategy: to its own return).
C13_ExceptionAdvancesStrategy ==
  /\ [](ca_exc = "none")
  /\ [][(pc = "ca_next" /\ caught.exc # "none")
          => /\ Outcome(result) # "Success"
             /\ pc' = AfterFailureOf(strategy)]_vars

\* C13 (amended): an exception never leaves create_account.  Caught by the
\* except clause of a strategy or of the login attempt it makes the strategy
\* return False, and create_account goes on to the next strategy; caught by
\* the except clause of the home-page visit that follows the login POST it
\* makes the strategy return the partial info, which create_account returns
\* without starting another strategy.
C13_ExceptionCaughtByStage ==
  /\ [](ca_exc = "none")
  /\ [][(pc = "ca_next" /\ caught.exc # "none")
          => IF caught.within = "homepage"
             THEN /\ result = PartialInfo
                  /\ pc' = "twp_result"
                  /\ ca_result' = PartialInfo
                  /\ started' = started
             ELSE /\ result = FalseResult
                  /\ pc' = AfterFailureOf(strategy)]_vars

\* C13 witness: the mobile strategy's home-page visit raised, and
\* create_account returned the partial info with no other strategy started
C13_Witness ==
  /\ pc = "twp_result"
  /\ caught.within = "homepage"
  /\ caught.exc \in TransportErrors
  /\ started = <<"mobile">>
  /\ ca_result = PartialInfo

\* C14: try_with_proxy terminates.  It runs at most MaxProxyAttempts
\* workflows (attempt stays below it), has slept exactly 5 + 3*i after each
\* attempt i that was not the last (and nothing after the last), returns
\* False when the last attempt ended without a truthy result, returns False
\* at once when get_proxy yields no proxy, and main always reaches its end.
C14_ProxyLoopTerminates ==
  /\ [](/\ attempt \in 0..(MaxProxyAttempts - 1)
        /\ delays = [i \in 1..attempt |-> 5 + 3 * (i - 1)])
  /\ [][/\ (pc = "twp_result" /\ ~Truthy(ca_result) /\ attempt = MaxProxyAttempts - 1)
            => (pc' = "main_report" /\ twp_result' = FalseResult /\ delays' = delays)
        /\ (pc = "twp_get" /\ GetProxyChoices(proxies, working_proxies) = {})
            => (pc' = "main_report" /\ twp_result' = FalseResult /\ delays' = delays
                /\ attempt' = attempt)]_vars
  /\ <>(pc = "done")

\* C14 witness: the third attempt failed too and try_with_proxy returned
\* False, having slept 5 and 8 seconds
C14_Witness ==
  /\ pc = "main_report"
  /\ attempt = MaxProxyAttempts - 1
  /\ delays = <<5, 8>>
  /\ twp_result = FalseResult
  /\ last_call.ok

\* C15: get and post make at most MAX_RETRIES attempts; after a transient
\* transport failure of an attempt that is not the last they sleep 2^attempt
\* (plus jitter) and try again; after a transient failure of the last attempt
\* they sleep nothing more and the exception reaches the caller.
C15_RetryWithBackoff ==
  /\ [](/\ http_attempt \in 0..(MAX_RETRIES - 1)
        /\ Cardinality({i \in 1..Len(slept) : slept[i].what = "jitter"}) <= MAX_RETRIES)
  /\ [][(/\ hpc = "result"
         /\ lib.purpose = "primary"
         /\ lib.res.kind = "raise"
         /\ lib.res.exc \in {"ConnectionError", "Timeout"})
          => IF http_attempt < MAX_RETRIES - 1
             THEN /\ slept' = Append(slept, [what |-> "backoff", base |-> 2 ^ http_attempt])
                  /\ http_attempt' = http_attempt + 1
                  /\ hpc' = "try"
                  /\ answer' = answer
             ELSE /\ slept' = slept
                  /\ hpc' = "idle"
                  /\ answer' = [kind |-> "raise", r |-> NoResp, exc |-> lib.res.exc]]_vars

\* C15 witness: three attempts timed out; the call slept 1 and 2 seconds of
\* backoff between them, nothing after the third, and raised Timeout
C15_Witness ==
  /\ hpc = "idle"
  /\ answer.kind = "raise"
  /\ answer.exc = "Timeout"
  /\ slept = <<[what |-> "jitter", base |-> 0], [what |-> "backoff", base |-> 1], [what |-> "jitter", base |-> 0],
               [what |-> "backoff", base |-> 2], [what |-> "jitter", base |-> 0]>>

\* C16: a get or post whose request exceeded its redirect cap gives its caller
\* TooManyRedirects: whenever the call ends right after the overrun, or right
\* after a request it made because of the overrun, what the caller gets is
\* that exception, not a response and not None.
C16_CapOverrunRaises ==
  [][(/\ hpc = "result"
      /\ hpc' = "idle"
      /\ \/ lib.purpose \in {"alt", "alt_final"}
         \/ lib.purpose = "primary" /\ lib.res.exc = "TooManyRedirects")
       => (answer'.kind = "raise" /\ answer'.exc = "TooManyRedirects")]_vars

\* C17: the fetch that the hook makes of the decoded uri of an fbredirect://
\* location is the last fetch of the requests call it belongs to: nothing is
\* fetched because of its response, whatever that response is.
C17_OneFetchOfTarget ==
  [][(hpc = "lib" /\ lib.by = "hook_app") => hpc' # "lib"]_vars

\* C18: the URL that the hook fetches in place of a redirect to
\* https://facebook.com/... or https://www.facebook.com/... has the host
\* m.facebook.com and the path and query of the redirect's location.
C18_RewrittenToMobileHost ==
  LET Rest(u) == SubSeq(u, 9, Len(u))                \* after "https://"
      Slash(u) == Find(Rest(u), <<"/">>, 1)
      Host(u) == SubSeq(Rest(u), 1, Slash(u) - 1)
      PathQuery(u) == SubSeq(Rest(u), Slash(u), Len(Rest(u)))
  IN (hpc = "lib" /\ lib.by = "hook_mobile")
       => /\ Host(lib.url) = HUrl.m_host
          /\ PathQuery(lib.url) = PathQuery(lib.from)

\* C19: a token of the session that is set is never changed: no step gives
\* fb_dtsg or lsd another value once it has one.
C19_SetTokenNeverOverwritten ==
  [][/\ fb_dtsg # "" => fb_dtsg' = fb_dtsg
     /\ lsd # "" => lsd' = lsd]_vars

\* C20: when post is entered with a dict body, the body it sends has the
\* caller's value under each token key the caller supplied (an empty value
\* too), the session's token under a key the caller left out if the session
\* holds that token, and no such key otherwise.
C20_TokensMergedIfAbsent ==
  (hpc = "try" /\ http_attempt = 0 /\ call.method = "post" /\ call.data0.isdict)
    => /\ call.data.isdict
       /\ call.data.fb_dtsg =
            IF call.data0.fb_dtsg # Absent THEN call.data0.fb_dtsg
            ELSE IF fb_dtsg # "" THEN fb_dtsg ELSE Absent
       /\ call.data.lsd =
            IF call.data0.lsd # Absent THEN call.data0.lsd
            ELSE IF lsd # "" THEN lsd ELSE Absent

\* C20 witness: the session holds both tokens and the caller's form has an
\* empty fb_dtsg and no lsd: the empty fb_dtsg is sent, the lsd is added
C20_Witness ==
  /\ hpc = "try"
  /\ http_attempt = 0
  /\ call.method = "post"
  /\ fb_dtsg = "A"
  /\ lsd = "A"
  /\ call.data0 = Data(TRUE, "", Absent)
  /\ call.data = Data(TRUE, "", "A")

\* C21: after clear_cookies(preserve_fingerprint=True) the jar holds exactly
\* the cookies named datr, sb, locale, wd, dpr or fr that it held before, each
\* with the value it had, and no other cookie.
C21_FingerprintCookiesKept ==
  (fn = "clear_cookies" /\ fn_arg.preserve_fingerprint)
    => fn_ret = [n \in DOMAIN fn_arg.jar \cap {"datr", "sb", "locale", "wd", "dpr", "fr"} |->
                   fn_arg.jar[n]]

\* C22: get_proxy and get_next_proxy return a member of the tested pool when
\* that pool is non-empty, otherwise a member of the raw pool when that one is
\* non-empty, otherwise None; never a proxy that is in neither pool.
C22_PrefersTestedPool ==
  last_call.op \in {"get_proxy", "get_next_proxy"} =>
    IF Len(working_proxies) > 0
    THEN last_call.ok /\ last_call.proxy \in Range(working_proxies)
    ELSE IF Len(proxies) > 0
    THEN last_call.ok /\ last_call.proxy \in Range(proxies)
    ELSE ~last_call.ok /\ last_call.proxy = NoneProxy

\* get_proxy chose from a tested pool that leaves out a proxy of the raw pool
C22_Witness ==
  /\ last_call.op = "get_proxy"
  /\ last_call.proxy \in Range(working_proxies)
  /\ Range(proxies) \ Range(working_proxies) # {}

\* C23: load_proxies returns False only if no source yields an entry: when the
\* cache of tested proxies, the list file or the remote provider would yield
\* one, it returns True with a non-empty pool, also when an earlier source
\* exists but is empty.
C23_LoadSucceedsIfAnySourceYields ==
  fn = "load_proxies" =>
    LET a == fn_arg
        yields == \/ a.working_proxies_file.exists
                     /\ ParseWorking(a.working_proxies_file.lines) # <<>>
                  \/ a.proxy_file.exists /\ ParseList(a.proxy_file.lines) # <<>>
                  \/ a.api.ok /\ ParseList(a.api.lines) # <<>>
    IN yields => /\ fn_ret.ok
                 /\ Len(fn_ret.proxies) + Len(fn_ret.working) > 0

\* C24: after every find_working_proxies call the file of working proxies
\* lists exactly the preferred pool (the tested proxies that passed), also when
\* no proxy passed.
C24_FileListsPreferredPool ==
  last_call.op = "find_working_proxies" =>
    ParseWorking(working_proxies_file.lines) = working_proxies

\* C25: _find_registration_form returns None for a page without a form, and
\* for a page on which exactly one form has a field named reg_email it returns
\* that form, whatever other forms the page has and in whatever order.
C25_FindsTheFormWithRegEmail ==
  fn = "find_registration_form" =>
    LET soup == fn_arg.soup
        holders == {i \in 1..Len(soup) : FormText.reg_email \in Range(soup[i].inputs)}
    IN /\ Len(soup) = 0 => fn_ret = 0
       /\ Cardinality(holders) = 1 => fn_ret \in holders

\* C25 (amended): _find_registration_form returns None for a page without a
\* form; on a page where exactly one form has a field named reg_email it
\* returns that form provided no other form is matched by one of the ten
\* selectors and, unless a selector matches the form itself, no form before it
\* has an input whose name contains a registration keyword.
C25_FindsTheFormWithRegEmailFirstMatch ==
  fn = "find_registration_form" =>
    LET soup == fn_arg.soup
        T == FormText
        holders == {i \in 1..Len(soup) : T.reg_email \in Range(soup[i].inputs)}
        Selected(f) ==
          \/ f.id \in {T.mobile_reg_form, T.signup_form, T.reg, T.registration_form}
          \/ f.action = T.reg_submit
          \/ f.method = T.post
          \/ f.name = T.reg
          \/ ContainsAny(f.action, {T.reg, T.signup, T.register})
        Keyworded(f) ==
          \E n \in Range(f.inputs) :
            ContainsAny(Lower(n), {T.firstname, T.lastname, Lit.email, T.password,
                                   T.reg_passwd, T.birthday, T.gender, T.sex,
                                   T.name_first, T.name_last})
    IN /\ Len(soup) = 0 => fn_ret = 0
       /\ \A h \in holders :
            ( /\ holders = {h}
              /\ \A i \in 1..Len(soup) : i # h => ~Selected(soup[i])
              /\ Selected(soup[h]) \/ \A i \in 1..(h-1) : ~Keyworded(soup[i]) )
            => fn_ret = h

\* the form with reg_email was found behind a form of another kind
C25_Witness ==
  /\ fn = "find_registration_form"
  /\ Len(fn_arg.soup) = 2
  /\ FormText.reg_email \notin Range(fn_arg.soup[1].inputs)
  /\ FormText.reg_email \in Range(fn_arg.soup[2].inputs)
  /\ fn_ret = 2

\* C26: filling is idempotent: _fill_registration_form applied to its own
\* result, with the same identity and email, returns that result unchanged,
\* for every scraped field map.
C26_FillIsIdempotent ==
  fn = "registration_form_data" =>
    \A uuid \in {<<"u", "1">>, <<"u", "2">>} :
      FillRegistrationForm(fn_ret.filled, fn_arg.user_data, fn_arg.email,
                           fn_arg.current_year, uuid) = fn_ret.filled

\* C27: a terms-type field (name containing terms, privacy, tos, policy or
\* agree) scraped with a non-empty value other than "0" has its scraped value
\* in the field map that is POSTed.
C27_SetTermsFieldKept ==
  fn = "registration_form_data" =>
    \A f \in DOMAIN fn_arg.form_data :
      ( /\ ContainsAny(Lower(f), {FormText.terms, FormText.privacy, FormText.tos,
                                  FormText.policy, FormText.agree})
        /\ fn_arg.form_data[f] \notin {<<>>, FormText.n0} )
      => fn_ret.posted[f] = fn_arg.form_data[f]

\* C28: the metadata injection only adds names that are absent: every name
\* present after scraping and pattern filling has the same value in the field
\* map that is POSTed.
C28_InjectionOnlyAdds ==
  fn = "registration_form_data" =>
    \A f \in DOMAIN fn_arg.form_data : fn_ret.posted[f] = fn_ret.filled[f]

\* C29: after _fill_registration_form every scraped field whose name contains
\* email, reg_email, contactpoint, email_address or emailaddress holds the
\* supplied email address, also when the name matches another pattern group.
C29_EmailFieldsHoldEmail ==
  fn = "registration_form_data" =>
    \A f \in DOMAIN fn_arg.form_data :
      ContainsAny(Lower(f), {Lit.email, FormText.reg_email, FormText.contactpoint,
                             FormText.email_address, FormText.emailaddress})
      => fn_ret.filled[f] = fn_arg.email

\* C30: the warm-up never blocks the workflow: an exception raised by one of
\* its GETs is caught inside it, every step of it is the next GET or the end
\* of the warm-up, and the mobile strategy is started after it.
C30_WarmupNeverBlocks ==
  /\ [][pc = "warmup" =>
          /\ ca_exc' = "none"
          /\ \/ pc' = "warmup" /\ idx' = idx + 1 /\ idx' <= 5
             \/ pc' = "m_home"]_vars
  /\ [][pc = "m_home" => started' = <<"mobile">>]_vars
  /\ (pc = "warmup") ~> (pc # "warmup" /\ started = <<"mobile">>)

\* a GET of the warm-up raised a transport error, the warm-up ended there and
\* the mobile strategy is what runs next
C30_Witness ==
  /\ pc = "m_home"
  /\ caught = Caught("ConnectionError", "warmup")
  /\ ca_exc = "none"
  /\ "warmup" \in reqs

\* C31: a scraping miss is not raised.  When the mobile landing page is not a
\* 200, or is one and none of the four signup URLs yields a registration form,
\* the mobile strategy returns False without having POSTed, no exception
\* leaves create_account, and create_account goes on to the desktop strategy.
C31_ScrapingMissMovesOn ==
  /\ [][pc = "m_home" =>
          /\ pc' \in {"m_signup", "ca_next"}
          /\ ca_exc' = "none" /\ last_post' = NoPost
          /\ pc' = "ca_next" => result' = FalseResult]_vars
  /\ [][pc = "m_signup" =>
          /\ pc' \in {"m_signup", "m_post", "ca_next"}
          /\ ca_exc' = "none" /\ last_post' = NoPost
          /\ pc' = "m_signup" => idx' = idx + 1 /\ idx' <= 4
          /\ pc' = "ca_next" => idx = 4 /\ result' = FalseResult]_vars
  /\ [][(pc = "ca_next" /\ strategy = "mobile" /\ result = FalseResult)
          => pc' = "d_google" /\ ca_exc' = "none"]_vars

\* the mobile strategy returned False without a POST and without an exception,
\* and the desktop strategy is what runs next
C31_Witness ==
  /\ pc = "d_google"
  /\ started = <<"mobile">>
  /\ returned = <<"Failure">>
  /\ last_post = NoPost
  /\ caught = NoCatch
  /\ ca_exc = "none"


\* C38: a successful load_proxies followed directly by find_working_proxies
\* leaves a proxy to hand out: the two pools are not both empty after the
\* testing round, so the next get_proxy / get_next_proxy returns a proxy.
\* The code empties working_proxies before testing and tests only the raw
\* list, so a load that succeeded from working_proxies.txt alone (no raw list
\* file) ends with both pools empty.
C38_LoadThenSelectKeepsAPool ==
  [][(/\ last_call.op = "load_proxies" /\ last_call.ok
      /\ last_call'.op = "find_working_proxies")
       => (proxies' # <<>> \/ working_proxies' # <<>>)]_vars


\* C39: get and post leave the session's redirect cap as they found it.
\* Whenever a call ends (a response returned, the fallback response after a
\* redirect-cap overrun or an invalid-scheme error, None after the retries,
\* or an exception raised), session.max_redirects is the value it had when
\* the call was entered.
C39_RedirectCapRestored ==
  [][(hpc # "idle" /\ hpc' = "idle") => max_redirects' = call.original]_vars


\* a call entered with a cap other than the session's ended by raising the
\* redirect-cap overrun after the alternative fetch failed too
C39_Witness ==
  /\ hpc = "idle" /\ answer.kind = "raise" /\ answer.exc = "TooManyRedirects"
  /\ call.cap # call.original
  /\ max_redirects = call.original


\* C36: get and post never give None. A call that has ended gave a response
\* or raised, whatever the library calls of its MAX_RETRIES attempts did.
\* A redirect-cap overrun on a URL that does not contain facebook.com is
\* swallowed by the except clause on every attempt, and the statement after
\* the loop returns None.
C36_NeverReturnsNone ==
  (hpc = "idle" /\ call # NoCall) => answer.kind \in {"response", "raise"}


\* C35: the user id of a Success result is data the site supplied during the
\* attempt (the c_user cookie, a response URL, page content, a cookie the
\* site set). It is never a piece of a cookie the client seeded itself in
\* _setup_browser_state: a dot-separated part of the fabricated fr value
\* (browser id, int(time.time()), random fraction) or the random presence
\* number.
C35_UserIdFromSite ==
  LET fr_parts == Split(Val.fr_seeded, ".")
      seeded == {fr_parts[i] : i \in 1..Len(fr_parts)} \cup {Val.presence}
  IN \A r \in {result, ca_result, twp_result} :
       r.success => r.user_id \notin seeded


\* C37: when the API strategy, the last of the three, has returned a falsy
\* result, create_account returns at once: False when the session's jar holds
\* no cookie at that point, the partial info when it holds any. The jar is
\* what the requests of the three strategies and the fingerprint-preserving
\* clear_cookies of the desktop and API strategies left of the seeded one.
C37_FailureIffJarEmpty ==
  [][(pc = "ca_next" /\ strategy = "api" /\ ~Truthy(result))
       => /\ pc' = "twp_result"
          /\ ca_result' = IF DOMAIN cookies = {} THEN FalseResult ELSE PartialInfo
          /\ cookies' = cookies]_vars

\* all three strategies failed, the site had expired every cookie, and
\* create_account returned False
C37_Witness ==
  /\ pc = "twp_result" /\ strategy = "api" /\ ca_exc = "none"
  /\ started = <<"mobile", "desktop", "api">>
  /\ DOMAIN cookies = {}
  /\ ca_result = FalseResult


\* C33: every generated identity has an age between the configured bounds,
\* min_age <= current_year - birth_year <= max_age, a month of the year, and
\* a day that exists in its month: 1 <= birth_day <= the length of the month
\* in the Gregorian calendar (February has 29 days in the years divisible by
\* 4 and not by 100, and in those divisible by 400).
C33_BirthDateValid ==
  fn = "generate_user_data" =>
    LET y == fn_ret.birth_year
        m == fn_ret.birth_month
        leap == (y % 4 = 0 /\ y % 100 # 0) \/ y % 400 = 0
        last == CASE m \in {1, 3, 5, 7, 8, 10, 12} -> 31
                  [] m \in {4, 6, 9, 11} -> 30
                  [] m = 2 -> IF leap THEN 29 ELSE 28
    IN /\ MinAge <= fn_arg.current_year - y
       /\ fn_arg.current_year - y <= MaxAge
       /\ m \in 1..12
       /\ 1 <= fn_ret.birth_day /\ fn_ret.birth_day <= last

\* a birthday on the leap day of a year divisible by 400
C33_Witness ==
  /\ fn = "generate_user_data"
  /\ fn_ret = [birth_year |-> 2000, birth_month |-> 2, birth_day |-> 29]

\* C34: for every length L >= 4, generate_strong_password(L) returns exactly
\* L characters, among them at least one lowercase letter, one uppercase
\* letter, one digit and one of the special characters.
C34_PasswordHasEveryClass ==
  (fn = "generate_strong_password" /\ fn_arg.length >= 4) =>
    LET lower == {"a", "b", "c", "d", "e", "f", "g", "h", "i", "j", "k", "l", "m",
                  "n", "o", "p", "q", "r", "s", "t", "u", "v", "w", "x", "y", "z"}
        upper == {"A", "B", "C", "D", "E", "F", "G", "H", "I", "J", "K", "L", "M",
                  "N", "O", "P", "Q", "R", "S", "T", "U", "V", "W", "X", "Y", "Z"}
        symbol == {"!", "@", "#", "$", "%", "^", "&", "*", "(", ")", "_", "+", "-",
                   "=", "[", "]", "{", "}", "|", ";", ":", ",", ".", "/", "<", ">", "?"}
        Has(class) == \E i \in 1..Len(fn_ret) : fn_ret[i] \in class
    IN /\ Len(fn_ret) = fn_arg.length
       /\ Has(lower) /\ Has(upper) /\ Has(Digits) /\ Has(symbol)

\* a password of five characters whose shuffle put the two special
\* characters first
C34_Witness ==
  /\ fn = "generate_strong_password" /\ fn_arg.length = 5
  /\ fn_ret = <<"?", "!", "1", "A", "a">>


\* C32: a page classified as phone or captcha verification makes
\* handle_verification return False without issuing any request. The type is
\* found by testing the email wording first, then the phone wording, then the
\* captcha wording (a page with email and phone wording is an email page, one
\* with phone and captcha wording a phone page), and the generic form is
\* posted only for a page that matches none of them.
C32_PhoneAndCaptchaSubmitNothing ==
  fn = "handle_verification" =>
    LET V == VerifyText
        text == fn_arg.response.text
        expected ==
          CASE text \in {V.t_confirm_email, V.t_email_or_sms} -> "email"
            [] text \in {V.sms, V.t_phone_captcha} -> "phone"
            [] text \in {V.t_enter_captcha, V.t_security_check} -> "captcha"
            [] OTHER -> "unknown"
    IN /\ fn_ret.type \in {"phone", "captcha"}
            => /\ fn_ret.at = "done" /\ fn_ret.requests = 0
               /\ fn_ret.value = FALSE /\ ~fn_ret.posted
       /\ fn_ret.type # "url" => fn_ret.type = expected
       /\ fn_ret.posted => fn_ret.type = "unknown"

\* a page with phone and captcha wording, a form and an email link was
\* classified as phone, and the call returned False with no request issued
C32_Witness ==
  /\ fn = "handle_verification"
  /\ fn_arg.response.text = VerifyText.t_phone_captcha
  /\ fn_arg.response.form /\ fn_arg.response.button = "href"
  /\ fn_ret.type = "phone" /\ fn_ret.at = "done"
  /\ fn_ret.requests = 0 /\ fn_ret.value = FALSE

====
